---- MODULE Spec2Model ----
(***************************************************************************)
(* The block acceptance pipeline of chain/src/pipe.rs: process_block,      *)
(* process_block_header and sync_block_headers over a transactional store  *)
(* (one batch per call) and the rewindable MMRs of the txhashset.          *)
(*                                                                         *)
(* A hash is modelled by the identity of the header it digests: two        *)
(* headers are equal iff their hashes are.  An MMR is modelled by the      *)
(* sequence of its leaves; its root is that sequence (an injective         *)
(* digest), its size the length.                                           *)
(***************************************************************************)
EXTENDS Integers, Sequences, FiniteSets, TLC

\* ------------------------------------------------------------------------
\* Consensus constants the pipeline reads.

\* consensus::BLOCK_TIME_SEC, as used by validate_header
BLOCK_TIME_SEC == 60

\* the look-back of check_known_store, in blocks
OLD_BLOCK_HORIZON == 50

\* consensus::COINBASE_MATURITY, in blocks: scaled down to a number of
\* blocks the model can put on a chain
COINBASE_MATURITY == 3

\* the header version valid_header_version accepts at the modelled heights
VALID_VERSION == 1

\* Utc::now() at the time of the calls: later than every honest timestamp
Now == 64 * BLOCK_TIME_SEC

\* ------------------------------------------------------------------------
\* Bounds of the model.

\* longest slice handed to sync_block_headers
MaxSlice == 2

\* highest block height asked of the REST handlers
MaxApiHeight == 3

\* length of the long chain of the deep-fork scenario, above OLD_BLOCK_HORIZON
DeepExtra == 2

\* the reorg scenario: the length of both chains and of their common part
ReorgLen == 10

ReorgShared == 7

\* ------------------------------------------------------------------------
\* Generic helpers.

Min(a, b) == IF a < b THEN a ELSE b

\* u64::saturating_sub
saturating_sub(a, b) == IF a > b THEN a - b ELSE 0

Take(s, n) == SubSeq(s, 1, Min(n, Len(s)))

RECURSIVE Reverse(_)
Reverse(s) == IF s = <<>> THEN <<>> ELSE Append(Reverse(Tail(s)), Head(s))

Range(s) == {s[i] : i \in DOMAIN s}

\* `let x = v;` followed by F: v is computed once, F reads it as x.
Let(v, F(_)) == F(v)

\* ------------------------------------------------------------------------
\* The candidate blocks the callers may submit.  Each is described by its
\* parent, timestamp, cumulative difficulty, spent outputs and one
\* deliberate fault ("" for an honest block); every other header field is
\* derived from the parent the way a miner derives it.

ZERO_HASH == 0 - 1

GENESIS == 0

Raw(prev, ts, td, inputs, fault) ==
    [prev |-> prev, ts |-> ts, td |-> td, inputs |-> inputs, fault |-> fault]

SmallRaw ==
    << Raw(0, 60, 2, {}, ""),          \* 1  A1
       Raw(1, 120, 3, {0}, ""),        \* 2  A2, spends the genesis output
       Raw(2, 180, 4, {}, ""),         \* 3  A3
       Raw(0, 30, 2, {}, ""),          \* 4  B1, same work as A1
       Raw(4, 50, 4, {}, ""),          \* 5  B2, more work than A2, same as A3
       Raw(1, 60, 3, {}, "time"),      \* 6  timestamp equal to its parent's
       Raw(4, 50, 4, {}, "pow"),       \* 7  proof of work does not verify
       Raw(1, 120, 3, {}, "body"),     \* 8  Block::validate fails
       Raw(0, 60, 2, {}, "root"),      \* 9  wrong output root
       Raw(2, 180, 5, {}, "wrongdiff"),\* 10 difficulty not the retarget's
       Raw(2, 180, 4, {0}, ""),        \* 11 spends the output A2 spent
       Raw(0, 60, 2, {}, "version"),   \* 12
       Raw(0, 0, 2, {}, "future"),     \* 13 timestamp beyond the limit
       Raw(4, 50, 4, {}, "edgebits"),  \* 14 neither primary nor secondary
       Raw(1, 120, 3, {}, "height"),   \* 15 height is parent's + 2
       Raw(1, 120, 2, {}, "difflow"),  \* 16 no work added
       Raw(1, 120, 3, {}, "powdiff"),  \* 17 PoW difficulty under target
       Raw(1, 120, 3, {}, "scaling"),  \* 18 wrong secondary scaling
       Raw(1, 120, 3, {}, "hroot"),    \* 19 wrong prev_root
       Raw(1, 120, 3, {}, "sums"),     \* 20 kernel sums do not balance
       Raw(1, 120, 3, {}, "size"),     \* 21 wrong output MMR size
       Raw(1, 100, 3, {}, ""),         \* 22 C1, a fork on A1, same work as A2
       Raw(22, 160, 5, {}, "") >>      \* 23 C2, the most work of all

SmallIds == 1..Len(SmallRaw)

\* The honest blocks of SmallRaw.
ValidIds == {1, 2, 3, 4, 5, 22, 23}

\* The long chain of the deep-fork scenario: DeepBase + h is the block at
\* height h of a chain of honest blocks on top of genesis.
DeepBase == 115

DeepLen == OLD_BLOCK_HORIZON + DeepExtra

DeepIds == (DeepBase + 1)..(DeepBase + DeepLen)

DeepRaw(id) ==
    LET h == id - DeepBase
    IN  Raw(IF h = 1 THEN GENESIS ELSE id - 1, h * BLOCK_TIME_SEC, h + 1, {}, "")

\* The reorg scenario.  Chain A is the first ReorgLen blocks of the long
\* chain; chain B shares its first ReorgShared blocks and goes on with
\* blocks of its own, ReorgBase + h at height h, mined faster than one per
\* BLOCK_TIME_SEC so that the difficulty of each is one above the last.
\* The first block of B's own spends the output of the first shared block.
ReorgBase == 69

ReorgA == (DeepBase + 1)..(DeepBase + ReorgLen)

ReorgB == (ReorgBase + ReorgShared + 1)..(ReorgBase + ReorgLen)

ReorgRaw(id) ==
    LET k == id - ReorgBase - ReorgShared
    IN  Raw(IF k = 1 THEN DeepBase + ReorgShared ELSE id - 1,
            ReorgShared * BLOCK_TIME_SEC + k * (BLOCK_TIME_SEC \div 2),
            ReorgShared + 1 + (k * (k + 1)) \div 2,
            IF k = 1 THEN {DeepBase + 1} ELSE {}, "")

\* The coinbase-maturity scenario.  MatBase + h is the block at height h
\* of a chain of COINBASE_MATURITY honest blocks on top of genesis; the
\* output of its first block is a coinbase output.  MatEarly spends that
\* output one block before it matures, MatLate in the first block that
\* may, and MatAfter is an honest block on top of MatLate.
MatBase == 40

MatChain == (MatBase + 1)..(MatBase + COINBASE_MATURITY)

MatCoinbase == MatBase + 1

MatEarly == MatBase + COINBASE_MATURITY + 1

MatLate == MatBase + COINBASE_MATURITY + 2

MatAfter == MatBase + COINBASE_MATURITY + 3

MatIds == MatChain \cup {MatEarly, MatLate, MatAfter}

MatRaw(id) ==
    LET h == IF id \in MatChain THEN id - MatBase
             ELSE IF id = MatEarly THEN COINBASE_MATURITY
             ELSE IF id = MatLate THEN COINBASE_MATURITY + 1
             ELSE COINBASE_MATURITY + 2
        prev == IF h = 1 THEN GENESIS
                ELSE IF id = MatAfter THEN MatLate ELSE MatBase + h - 1
    IN  Raw(prev, h * BLOCK_TIME_SEC, h + 1,
            IF id \in {MatEarly, MatLate} THEN {MatCoinbase} ELSE {}, "")

Ids == {GENESIS} \cup SmallIds \cup DeepIds \cup ReorgB \cup MatIds

RawOf(id) ==
    IF id \in SmallIds THEN SmallRaw[id]
    ELSE IF id \in ReorgB THEN ReorgRaw(id)
    ELSE IF id \in MatIds THEN MatRaw(id) ELSE DeepRaw(id)

GenesisBlock ==
    [ hash |-> GENESIS, prev_hash |-> ZERO_HASH, height |-> 0, timestamp |-> 0,
      total_difficulty |-> 1, version |-> VALID_VERSION,
      is_primary |-> TRUE, is_secondary |-> FALSE, pow_ok |-> TRUE,
      pow_difficulty |-> 1, secondary_scaling |-> 1,
      prev_root |-> <<>>, output_root |-> <<0>>, rproof_root |-> <<0>>,
      kernel_root |-> <<0>>, output_mmr_size |-> 1, kernel_mmr_size |-> 1,
      total_kernel_offset |-> 0,
      outputs |-> <<0>>, inputs |-> {}, kernels |-> <<0>>, coinbase |-> {},
      body_ok |-> TRUE, commit_sum |-> 0, kernel_excess |-> 0 ]

\* consensus::next_difficulty over the window ending at `prev`: a damped
\* retarget over the last block interval.
next_difficulty(prev, pprev) ==
    LET last == prev.total_difficulty - pprev.total_difficulty
        gap  == prev.timestamp - pprev.timestamp
    IN  [ difficulty |-> IF gap < BLOCK_TIME_SEC THEN last + 1
                         ELSE IF gap > BLOCK_TIME_SEC /\ last > 1 THEN last - 1
                         ELSE last,
          secondary_scaling |-> prev.secondary_scaling ]

\* The block a miner builds on `p` from the description `r`.
MakeBlock(id, r, p) ==
    LET f == r.fault
    IN  [ hash |-> id, prev_hash |-> p.hash,
          height |-> IF f = "height" THEN p.height + 2 ELSE p.height + 1,
          timestamp |-> IF f = "future" THEN Now + 12 * BLOCK_TIME_SEC + 1 ELSE r.ts,
          total_difficulty |-> r.td,
          version |-> IF f = "version" THEN VALID_VERSION + 1 ELSE VALID_VERSION,
          is_primary |-> f # "edgebits", is_secondary |-> FALSE,
          pow_ok |-> f # "pow",
          pow_difficulty |-> IF f = "powdiff" THEN 0 ELSE r.td,
          secondary_scaling |-> IF f = "scaling" THEN p.secondary_scaling + 1
                                ELSE p.secondary_scaling,
          prev_root |-> IF f = "hroot" THEN p.prev_root
                        ELSE Append(p.prev_root, p.hash),
          output_root |-> IF f = "root" THEN Append(p.output_root, 0 - id)
                          ELSE Append(p.output_root, id),
          rproof_root |-> Append(p.rproof_root, id),
          kernel_root |-> Append(p.kernel_root, id),
          output_mmr_size |-> IF f = "size" THEN p.output_mmr_size + 2
                              ELSE p.output_mmr_size + 1,
          kernel_mmr_size |-> p.kernel_mmr_size + 1,
          total_kernel_offset |-> p.total_kernel_offset + 1,
          outputs |-> <<id>>, inputs |-> r.inputs, kernels |-> <<id>>,
          coinbase |-> IF id = MatCoinbase THEN {id} ELSE {},
          body_ok |-> f # "body",
          commit_sum |-> IF f = "sums" THEN 4 ELSE 3,
          kernel_excess |-> 2 ]

RECURSIVE BuildChain(_, _, _)
BuildChain(tbl, todo, n) ==
    IF todo = {} \/ n = 0 THEN tbl
    ELSE LET ready == {i \in todo : RawOf(i).prev \in DOMAIN tbl}
             add   == [i \in ready |->
                          Let(RawOf(i), LAMBDA r : MakeBlock(i, r, tbl[r.prev]))]
         IN  BuildChain(tbl @@ add, todo \ ready, n - 1)

\* Every candidate block, by hash.
Block == BuildChain((GENESIS :> GenesisBlock), Ids \ {GENESIS}, DeepLen + 4)

\* ------------------------------------------------------------------------
\* Tips and results.

\* Tip::from_header
from_header(h) ==
    [ last_block_h |-> h.hash, prev_block_h |-> h.prev_hash,
      height |-> h.height, total_difficulty |-> h.total_difficulty ]

\* An absent tip: Option::None, or a tip the store does not hold.
NoTip ==
    [ last_block_h |-> ZERO_HASH, prev_block_h |-> ZERO_HASH,
      height |-> 0, total_difficulty |-> 0 ]

Ok(v) == [ok |-> TRUE, err |-> "", val |-> v]

Err(kind) == [ok |-> FALSE, err |-> kind, val |-> NoTip]

\* ------------------------------------------------------------------------
\* The BlockContext of one call.  ctx holds the batch as the call sees it
\* (pending writes over the committed store), the txhashset, the options
\* and a log of the pow_verifier invocations of this call.

SKIP_POW == "SKIP_POW"

OptionSets == {{}, {SKIP_POW}}

\* (ctx.pow_verifier)(header): the verdict is a property of the header.
pow_verifier(header, ctx) ==
    [ ctx |-> [ctx EXCEPT !.pow_invoked = @ \cup {header.hash},
                          !.pow_passed = IF header.pow_ok
                                         THEN @ \cup {header.hash} ELSE @],
      is_ok |-> header.pow_ok ]

\* Two faulty variants of has_more_work, for checking that the fork claims
\* depend on the strict comparison: a tie counts as more work; every header
\* counts as more work.
has_more_work_or_equal(header, head) ==
    header.total_difficulty >= head.total_difficulty

has_more_work_always(header, head) == TRUE

has_more_work(header, head) == header.total_difficulty > head.total_difficulty

add_block_header(bh, ctx) == [ctx EXCEPT !.headers = @ \cup {bh.hash}]

\* A faulty variant of add_block that saves neither the block nor its sums.
add_block_unsaved(b, block_sums, ctx) == ctx

add_block(b, block_sums, ctx) ==
    [ctx EXCEPT !.blocks = @ \cup {b.hash},
                !.block_sums = (b.hash :> block_sums) @@ @]

update_body_tail(bh, ctx) == [ctx EXCEPT !.body_tail = from_header(bh)]

\* A faulty variant of update_head that does not save the head.
update_head_dropped(head, ctx) == ctx

update_head(head, ctx) == [ctx EXCEPT !.head = head]

update_sync_head(head, ctx) == [ctx EXCEPT !.sync_head = head]

\* A faulty variant of update_header_head that does not save the head.
update_header_head_dropped(head, ctx) == ctx

update_header_head(head, ctx) == [ctx EXCEPT !.header_head = head]

check_known_head(header, ctx) ==
    IF header.hash = ctx.head.last_block_h \/ header.hash = ctx.head.prev_block_h
    THEN "Unfit" ELSE ""

\* A faulty variant of check_known_store that calls a block at the horizon
\* old as well.
check_known_store_inclusive(header, ctx) ==
    IF header.hash \in ctx.blocks
    THEN IF header.height <= saturating_sub(ctx.head.height, OLD_BLOCK_HORIZON)
         THEN "OldBlock" ELSE "Unfit"
    ELSE ""

\* A faulty variant of check_known_store that never finds the block.
check_known_store_blind(header, ctx) == ""

check_known_store(header, ctx) ==
    IF header.hash \in ctx.blocks
    THEN IF header.height < saturating_sub(ctx.head.height, OLD_BLOCK_HORIZON)
         THEN "OldBlock" ELSE "Unfit"
    ELSE ""

check_known(header, ctx) ==
    LET e == check_known_head(header, ctx)
    IN  IF e # "" THEN e ELSE check_known_store(header, ctx)

validate_pow_only(header, ctx) ==
    IF ~header.is_primary /\ ~header.is_secondary
    THEN [ctx |-> ctx, err |-> "LowEdgebits"]
    ELSE LET v == pow_verifier(header, ctx)
         IN  [ctx |-> v.ctx, err |-> IF v.is_ok THEN "" ELSE "InvalidPow"]

\* batch.get_previous_header with NotFoundErr mapped to Orphan
prev_header_store(header, ctx) ==
    IF header.prev_hash \in ctx.headers
    THEN [err |-> "", prev |-> Block[header.prev_hash]]
    ELSE [err |-> "Orphan", prev |-> GenesisBlock]

\* consensus::next_difficulty(height, DifficultyIter::from_batch(prev.hash()))
expected_next(prev) ==
    IF prev.height = 0
    THEN [difficulty |-> 1, secondary_scaling |-> prev.secondary_scaling]
    ELSE next_difficulty(prev, Block[prev.prev_hash])

\* A faulty variant of the checks against the previous header that leaves
\* the height check out.
validate_header_prev_any_height(header, prev, ctx) ==
    IF header.timestamp <= prev.timestamp THEN "InvalidBlockTime"
    ELSE IF SKIP_POW \in ctx.opts THEN ""
    ELSE IF header.total_difficulty <= prev.total_difficulty THEN "DifficultyTooLow"
    ELSE LET target_difficulty == header.total_difficulty - prev.total_difficulty
             next_header_info == expected_next(prev)
         IN  IF header.pow_difficulty < target_difficulty THEN "DifficultyTooLow"
             ELSE IF target_difficulty # next_header_info.difficulty
             THEN "WrongTotalDifficulty"
             ELSE IF header.secondary_scaling # next_header_info.secondary_scaling
             THEN "InvalidScaling"
             ELSE ""

\* validate_header, the checks that follow the lookup of prev
validate_header_prev(header, prev, ctx) ==
    IF header.height # prev.height + 1 THEN "InvalidBlockHeight"
    ELSE IF header.timestamp <= prev.timestamp THEN "InvalidBlockTime"
    ELSE IF SKIP_POW \in ctx.opts THEN ""
    ELSE IF header.total_difficulty <= prev.total_difficulty THEN "DifficultyTooLow"
    ELSE LET target_difficulty == header.total_difficulty - prev.total_difficulty
             next_header_info == expected_next(prev)
         IN  IF header.pow_difficulty < target_difficulty THEN "DifficultyTooLow"
             ELSE IF target_difficulty # next_header_info.difficulty
             THEN "WrongTotalDifficulty"
             ELSE IF header.secondary_scaling # next_header_info.secondary_scaling
             THEN "InvalidScaling"
             ELSE ""

\* validate_header, the PoW checks that precede the lookup of prev
validate_header_pow(header, ctx) ==
    IF SKIP_POW \in ctx.opts THEN [ctx |-> ctx, err |-> ""]
    ELSE IF ~header.is_primary /\ ~header.is_secondary
    THEN [ctx |-> ctx, err |-> "LowEdgebits"]
    ELSE LET v == pow_verifier(header, ctx)
         IN  [ctx |-> v.ctx, err |-> IF v.is_ok THEN "" ELSE "InvalidPow"]

\* A faulty variant of validate_header that looks the previous header up
\* before the PoW checks.
validate_header_lookup_first(header, ctx) ==
    IF header.version # VALID_VERSION
    THEN [ctx |-> ctx, err |-> "InvalidBlockVersion"]
    ELSE IF header.timestamp > Now + 12 * BLOCK_TIME_SEC
    THEN [ctx |-> ctx, err |-> "InvalidBlockTime"]
    ELSE Let(prev_header_store(header, ctx), LAMBDA p :
         IF p.err # "" THEN [ctx |-> ctx, err |-> p.err]
         ELSE Let(validate_header_pow(header, ctx), LAMBDA pow :
              IF pow.err # "" THEN pow
              ELSE [ctx |-> pow.ctx,
                    err |-> validate_header_prev(header, p.prev, pow.ctx)]))

validate_header(header, ctx) ==
    IF header.version # VALID_VERSION
    THEN [ctx |-> ctx, err |-> "InvalidBlockVersion"]
    ELSE IF header.timestamp > Now + 12 * BLOCK_TIME_SEC
    THEN [ctx |-> ctx, err |-> "InvalidBlockTime"]
    ELSE Let(validate_header_pow(header, ctx), LAMBDA pow :
         IF pow.err # "" THEN pow
         ELSE Let(prev_header_store(header, pow.ctx), LAMBDA p :
              IF p.err # "" THEN [ctx |-> pow.ctx, err |-> p.err]
              ELSE [ctx |-> pow.ctx,
                    err |-> validate_header_prev(header, p.prev, pow.ctx)]))

\* ------------------------------------------------------------------------
\* The header MMR and the header extensions.

\* HeaderExtension::is_on_current_chain / Extension::is_on_current_chain:
\* the header the header MMR holds at this height is this header.
is_on_current_chain(hmmr, header, ctx) ==
    /\ header.height + 1 <= Len(hmmr)
    /\ hmmr[header.height + 1] \in ctx.headers
    /\ hmmr[header.height + 1] = header.hash

\* HeaderExtension::validate_root / Extension::validate_header_root
validate_root(hmmr, header) ==
    IF header.height = 0 \/ hmmr = header.prev_root THEN "" ELSE "InvalidRoot"

\* The walk back of rewind_and_apply_header_fork.
RECURSIVE header_fork_walk(_, _, _, _)
header_fork_walk(current, fork_hashes, hmmr, ctx) ==
    IF current.height > 0 /\ ~is_on_current_chain(hmmr, current, ctx)
    THEN IF current.prev_hash \in ctx.headers
         THEN header_fork_walk(Block[current.prev_hash],
                               Append(fork_hashes, current.hash), hmmr, ctx)
         ELSE [err |-> "StoreErr", current |-> current, fork_hashes |-> fork_hashes]
    ELSE [err |-> "", current |-> current, fork_hashes |-> Reverse(fork_hashes)]

\* ext is the header extension: [hmmr, head].
rewind_and_apply_header_fork(header, ext, ctx) ==
    IF header.hash = ext.head.last_block_h
    THEN [err |-> "", ext |-> ext]
    ELSE Let(header_fork_walk(header, <<>>, ext.hmmr, ctx), LAMBDA w :
         IF w.err # "" THEN [err |-> w.err, ext |-> ext]
         ELSE IF \E i \in DOMAIN w.fork_hashes : w.fork_hashes[i] \notin ctx.headers
         THEN [err |-> "StoreErr", ext |-> ext]
         ELSE [err |-> "",
               ext |-> [ hmmr |-> Take(ext.hmmr, w.current.height + 1) \o w.fork_hashes,
                         head |-> from_header(
                             IF w.fork_hashes = <<>> THEN w.current
                             ELSE Block[w.fork_hashes[Len(w.fork_hashes)]]) ]])

\* A faulty variant of the closure that never calls force_rollback.
header_extending_body_kept(header, prev_header, header_head, ctx) ==
    Let(rewind_and_apply_header_fork(
            prev_header, [hmmr |-> ctx.hmmr, head |-> ctx.header_head], ctx),
        LAMBDA f :
        IF f.err # "" THEN [err |-> f.err, hmmr |-> ctx.hmmr]
        ELSE Let(validate_root(f.ext.hmmr, header), LAMBDA v :
             IF v # "" THEN [err |-> v, hmmr |-> ctx.hmmr]
             ELSE [err |-> "", hmmr |-> Append(f.ext.hmmr, header.hash)]))

\* The closure process_block_header runs inside txhashset::header_extending.
header_extending_body(header, prev_header, header_head, ctx) ==
    Let(rewind_and_apply_header_fork(
            prev_header, [hmmr |-> ctx.hmmr, head |-> ctx.header_head], ctx),
        LAMBDA f :
        IF f.err # "" THEN [err |-> f.err, hmmr |-> ctx.hmmr]
        ELSE Let(validate_root(f.ext.hmmr, header), LAMBDA v :
             IF v # "" THEN [err |-> v, hmmr |-> ctx.hmmr]
             ELSE [err |-> "",
                   hmmr |-> IF ~has_more_work(header, header_head)
                            THEN ctx.hmmr    \* force_rollback
                            ELSE Append(f.ext.hmmr, header.hash)]))

\* A faulty variant of process_block_header that processes a known header
\* like a new one.
process_block_header_again(header, ctx) ==
    IF header.prev_hash \notin ctx.headers THEN [ctx |-> ctx, res |-> Err("StoreErr")]
    ELSE
    Let(header_extending_body(header, Block[header.prev_hash], ctx.header_head, ctx),
        LAMBDA x :
        IF x.err # "" THEN [ctx |-> [ctx EXCEPT !.hmmr = x.hmmr], res |-> Err(x.err)]
        ELSE
        Let(validate_header(header, [ctx EXCEPT !.hmmr = x.hmmr]), LAMBDA v :
            IF v.err # "" THEN [ctx |-> v.ctx, res |-> Err(v.err)]
            ELSE
            Let(add_block_header(header, v.ctx), LAMBDA ctx2 :
                [ ctx |-> IF has_more_work(header, ctx.header_head)
                          THEN update_header_head(from_header(header), ctx2)
                          ELSE ctx2,
                  res |-> Ok(NoTip) ])))

process_block_header(header, ctx) ==
    IF header.prev_hash \notin ctx.headers THEN [ctx |-> ctx, res |-> Err("StoreErr")]
    ELSE IF check_known(header, ctx) # "" THEN [ctx |-> ctx, res |-> Ok(NoTip)]
    ELSE IF header.hash \in ctx.headers /\ ~has_more_work(header, ctx.header_head)
    THEN [ctx |-> ctx, res |-> Ok(NoTip)]
    ELSE
    Let(header_extending_body(header, Block[header.prev_hash], ctx.header_head, ctx),
        LAMBDA x :
        IF x.err # "" THEN [ctx |-> [ctx EXCEPT !.hmmr = x.hmmr], res |-> Err(x.err)]
        ELSE
        Let(validate_header(header, [ctx EXCEPT !.hmmr = x.hmmr]), LAMBDA v :
            IF v.err # "" THEN [ctx |-> v.ctx, res |-> Err(v.err)]
            ELSE
            Let(add_block_header(header, v.ctx), LAMBDA ctx2 :
                [ ctx |-> IF has_more_work(header, ctx.header_head)
                          THEN update_header_head(from_header(header), ctx2)
                          ELSE ctx2,
                  res |-> Ok(NoTip) ])))

\* ------------------------------------------------------------------------
\* The full extension: [hmmr, ommr, rmmr, kmmr, spent, header], the four
\* MMRs, the spent bitmap of the output MMR and the header the extension
\* is at.

\* The outputs the utxo_view of the extension sees.
utxo_view(ext) == Range(ext.ommr) \ ext.spent

\* The inputs spent by the blocks the rewind undoes: from the header the
\* extension is at back to the rewind target.
RECURSIVE input_pos_to_rewind(_, _, _)
input_pos_to_rewind(block_header, current, ctx) ==
    IF current.hash = block_header.hash \/ current.height < 1 THEN {}
    ELSE (IF current.hash \in ctx.blocks THEN current.inputs ELSE {})
         \cup (IF current.prev_hash \in ctx.headers
               THEN input_pos_to_rewind(block_header, Block[current.prev_hash], ctx)
               ELSE {})

\* Extension::rewind
rewind(ext, header, ctx) ==
    LET ommr == Take(ext.ommr, header.output_mmr_size)
        rm   == IF Block[ext.header].height < header.height THEN {}
                ELSE input_pos_to_rewind(header, Block[ext.header], ctx)
    IN  [ hmmr |-> Take(ext.hmmr, header.height + 1),
          ommr |-> ommr,
          rmmr |-> Take(ext.rmmr, header.output_mmr_size),
          kmmr |-> Take(ext.kmmr, header.kernel_mmr_size),
          spent |-> (ext.spent \ rm) \cap Range(ommr),
          header |-> header.hash ]

\* Extension::apply_block: header, outputs, inputs, kernels
apply_block(ext, b) ==
    [ hmmr |-> Append(ext.hmmr, b.hash),
      ommr |-> ext.ommr \o b.outputs,
      rmmr |-> ext.rmmr \o b.outputs,
      kmmr |-> ext.kmmr \o b.kernels,
      spent |-> ext.spent \cup b.inputs,
      header |-> b.hash ]

\* Extension::validate_roots
validate_roots(ext) ==
    LET h == Block[ext.header]
    IN  IF ext.ommr = h.output_root /\ ext.rmmr = h.rproof_root
           /\ ext.kmmr = h.kernel_root
        THEN "" ELSE "InvalidRoot"

\* Extension::validate_sizes
validate_sizes(ext) ==
    LET h == Block[ext.header]
    IN  IF Len(ext.ommr) = h.output_mmr_size /\ Len(ext.rmmr) = h.output_mmr_size
           /\ Len(ext.kmmr) = h.kernel_mmr_size
        THEN "" ELSE "InvalidMMRSize"

verify_coinbase_maturity(block, ext) ==
    IF \E o \in block.inputs \cap utxo_view(ext) :
          /\ o \in Block[o].coinbase
          /\ Block[o].height + COINBASE_MATURITY > block.height
    THEN "ImmatureCoinbase" ELSE ""

validate_utxo(block, ext) ==
    IF \E o \in Range(block.outputs) : o \in utxo_view(ext)
    THEN "DuplicateCommitment"
    ELSE IF \E i \in block.inputs : i \notin utxo_view(ext)
    THEN "AlreadySpent" ELSE ""

verify_block_sums(b, ctx) ==
    IF b.prev_hash \notin DOMAIN ctx.block_sums
    THEN [err |-> "StoreErr", block_sums |-> [utxo_sum |-> 0, kernel_sum |-> 0]]
    ELSE LET prev_sums == ctx.block_sums[b.prev_hash]
             utxo_sum == prev_sums.utxo_sum + b.commit_sum
             kernel_sum == prev_sums.kernel_sum + b.kernel_excess
         IN  [ err |-> IF utxo_sum = kernel_sum + b.total_kernel_offset
                       THEN "" ELSE "KernelSumMismatch",
               block_sums |-> [utxo_sum |-> utxo_sum, kernel_sum |-> kernel_sum] ]

\* A faulty variant of apply_block_to_txhashset that applies the block
\* without validating the roots and sizes.
apply_block_to_txhashset_unchecked(block, ext) ==
    LET r == validate_root(ext.hmmr, block) IN
    IF r # "" THEN [err |-> r, ext |-> ext]
    ELSE [err |-> "", ext |-> apply_block(ext, block)]

apply_block_to_txhashset(block, ext) ==
    Let(validate_root(ext.hmmr, block), LAMBDA r :
    IF r # "" THEN [err |-> r, ext |-> ext]
    ELSE Let(apply_block(ext, block), LAMBDA e1 :
         Let(validate_roots(e1), LAMBDA v :
             IF v # "" THEN [err |-> v, ext |-> e1]
             ELSE [err |-> validate_sizes(e1), ext |-> e1])))

\* The first walk of rewind_and_apply_fork: where header_head leaves the
\* current chain.
RECURSIVE header_forked_walk(_, _, _)
header_forked_walk(current, hmmr, ctx) ==
    IF current.height > 0 /\ ~is_on_current_chain(hmmr, current, ctx)
    THEN IF current.prev_hash \in ctx.headers
         THEN header_forked_walk(Block[current.prev_hash], hmmr, ctx)
         ELSE [err |-> "StoreErr", current |-> current]
    ELSE [err |-> "", current |-> current]

\* A faulty variant of the second walk that stops at the given header's own
\* fork point, whatever the fork point of header_head is.
RECURSIVE fork_walk_own_fork_point(_, _, _, _, _)
fork_walk_own_fork_point(current, fork_hashes, header_forked_header, hmmr, ctx) ==
    IF current.height > 0 /\ ~is_on_current_chain(hmmr, current, ctx)
    THEN IF current.prev_hash \in ctx.headers
         THEN fork_walk_own_fork_point(Block[current.prev_hash],
                        Append(fork_hashes, current.hash),
                        header_forked_header, hmmr, ctx)
         ELSE [err |-> "StoreErr", current |-> current, fork_hashes |-> fork_hashes]
    ELSE [err |-> "", current |-> current, fork_hashes |-> Reverse(fork_hashes)]

\* The second walk: back from the given header to the earlier fork point.
RECURSIVE fork_walk(_, _, _, _, _)
fork_walk(current, fork_hashes, header_forked_header, hmmr, ctx) ==
    IF current.height > 0
       /\ (~is_on_current_chain(hmmr, current, ctx)
           \/ current.height > header_forked_header.height)
    THEN IF current.prev_hash \in ctx.headers
         THEN fork_walk(Block[current.prev_hash], Append(fork_hashes, current.hash),
                        header_forked_header, hmmr, ctx)
         ELSE [err |-> "StoreErr", current |-> current, fork_hashes |-> fork_hashes]
    ELSE [err |-> "", current |-> current, fork_hashes |-> Reverse(fork_hashes)]

\* The loop of rewind_and_apply_fork that reapplies the blocks of the fork.
RECURSIVE reapply_fork(_, _, _)
reapply_fork(fork_hashes, ext, ctx) ==
    IF fork_hashes = <<>> THEN [err |-> "", ext |-> ext]
    ELSE IF Head(fork_hashes) \notin ctx.blocks THEN [err |-> "StoreErr", ext |-> ext]
    ELSE Let(Block[Head(fork_hashes)], LAMBDA fb :
         Let(verify_coinbase_maturity(fb, ext), LAMBDA m :
         IF m # "" THEN [err |-> m, ext |-> ext]
         ELSE Let(validate_utxo(fb, ext), LAMBDA u :
         IF u # "" THEN [err |-> u, ext |-> ext]
         ELSE Let(verify_block_sums(fb, ctx), LAMBDA s :
         IF s.err # "" THEN [err |-> s.err, ext |-> ext]
         ELSE Let(apply_block_to_txhashset(fb, ext), LAMBDA a :
         IF a.err # "" THEN [err |-> a.err, ext |-> ext]
         ELSE reapply_fork(Tail(fork_hashes), a.ext, ctx))))))

\* A faulty variant that rewinds to the fork point and reapplies nothing.
rewind_and_apply_fork_rewind_only(header, header_head, ext, ctx) ==
    IF header_head.last_block_h \notin ctx.headers THEN [err |-> "StoreErr", ext |-> ext]
    ELSE
    Let(header_forked_walk(Block[header_head.last_block_h], ext.hmmr, ctx), LAMBDA hf :
    IF hf.err # "" THEN [err |-> hf.err, ext |-> ext]
    ELSE
    Let(fork_walk(header, <<>>, hf.current, ext.hmmr, ctx), LAMBDA w :
    IF w.err # "" THEN [err |-> w.err, ext |-> ext]
    ELSE [err |-> "", ext |-> rewind(ext, w.current, ctx)]))

rewind_and_apply_fork(header, header_head, ext, ctx) ==
    IF header_head.last_block_h \notin ctx.headers THEN [err |-> "StoreErr", ext |-> ext]
    ELSE
    Let(header_forked_walk(Block[header_head.last_block_h], ext.hmmr, ctx), LAMBDA hf :
    IF hf.err # "" THEN [err |-> hf.err, ext |-> ext]
    ELSE
    Let(fork_walk(header, <<>>, hf.current, ext.hmmr, ctx), LAMBDA w :
    IF w.err # "" THEN [err |-> w.err, ext |-> ext]
    ELSE reapply_fork(w.fork_hashes, rewind(ext, w.current, ctx), ctx)))

\* A faulty variant of the closure that never calls force_rollback.
extending_body_kept(b, prev, header_head, ctx) ==
    LET ext0 == [ hmmr |-> ctx.hmmr, ommr |-> ctx.ommr, rmmr |-> ctx.rmmr,
                  kmmr |-> ctx.kmmr, spent |-> ctx.spent,
                  header |-> ctx.head.last_block_h ]
        none == [err |-> "", ext |-> ext0, commit |-> FALSE,
                 block_sums |-> [utxo_sum |-> 0, kernel_sum |-> 0]]
    IN
    Let(rewind_and_apply_fork(prev, header_head, ext0, ctx), LAMBDA f :
    IF f.err # "" THEN [none EXCEPT !.err = f.err]
    ELSE
    Let(verify_coinbase_maturity(b, f.ext), LAMBDA m :
    IF m # "" THEN [none EXCEPT !.err = m]
    ELSE
    Let(validate_utxo(b, f.ext), LAMBDA u :
    IF u # "" THEN [none EXCEPT !.err = u]
    ELSE
    Let(verify_block_sums(b, ctx), LAMBDA s :
    IF s.err # "" THEN [none EXCEPT !.err = s.err]
    ELSE
    Let(apply_block_to_txhashset(b, f.ext), LAMBDA a :
    IF a.err # "" THEN [none EXCEPT !.err = a.err, !.ext = a.ext]
    ELSE [ err |-> "", ext |-> a.ext, commit |-> TRUE,
           block_sums |-> s.block_sums ])))))

\* The closure process_block runs inside txhashset::extending.  `applied`
\* is the extension right after the block was applied; `commit` tells
\* whether the extension is kept (no error and no force_rollback).
extending_body(b, prev, header_head, ctx) ==
    LET ext0 == [ hmmr |-> ctx.hmmr, ommr |-> ctx.ommr, rmmr |-> ctx.rmmr,
                  kmmr |-> ctx.kmmr, spent |-> ctx.spent,
                  header |-> ctx.head.last_block_h ]
        none == [err |-> "", ext |-> ext0, commit |-> FALSE,
                 block_sums |-> [utxo_sum |-> 0, kernel_sum |-> 0]]
    IN
    Let(rewind_and_apply_fork(prev, header_head, ext0, ctx), LAMBDA f :
    IF f.err # "" THEN [none EXCEPT !.err = f.err]
    ELSE
    Let(verify_coinbase_maturity(b, f.ext), LAMBDA m :
    IF m # "" THEN [none EXCEPT !.err = m]
    ELSE
    Let(validate_utxo(b, f.ext), LAMBDA u :
    IF u # "" THEN [none EXCEPT !.err = u]
    ELSE
    Let(verify_block_sums(b, ctx), LAMBDA s :
    IF s.err # "" THEN [none EXCEPT !.err = s.err]
    ELSE
    Let(apply_block_to_txhashset(b, f.ext), LAMBDA a :
    IF a.err # "" THEN [none EXCEPT !.err = a.err, !.ext = a.ext]
    ELSE [ err |-> "", ext |-> a.ext,
           commit |-> has_more_work(b, ctx.head),
           block_sums |-> s.block_sums ])))))

\* add_block, update_body_tail and update_head: the writes of process_block
\* that follow the extension.
\* A faulty variant of the writes that makes every accepted block the head.
process_block_save_always(b, block_sums, head, ctx) ==
    Let(add_block(b, block_sums, ctx), LAMBDA c1 :
    Let(IF c1.body_tail = NoTip THEN update_body_tail(b, c1) ELSE c1, LAMBDA c2 :
        [ctx |-> update_head(from_header(b), c2), res |-> Ok(from_header(b))]))

\* A faulty variant of the writes that sets body_tail on every accepted
\* block.
process_block_save_tail_always(b, block_sums, head, ctx) ==
    Let(add_block(b, block_sums, ctx), LAMBDA c1 :
    Let(update_body_tail(b, c1), LAMBDA c2 :
        IF has_more_work(b, head)
        THEN [ctx |-> update_head(from_header(b), c2), res |-> Ok(from_header(b))]
        ELSE [ctx |-> c2, res |-> Ok(NoTip)]))

process_block_save(b, block_sums, head, ctx) ==
    Let(add_block(b, block_sums, ctx), LAMBDA c1 :
    Let(IF c1.body_tail = NoTip THEN update_body_tail(b, c1) ELSE c1, LAMBDA c2 :
        IF has_more_work(b, head)
        THEN [ctx |-> update_head(from_header(b), c2), res |-> Ok(from_header(b))]
        ELSE [ctx |-> c2, res |-> Ok(NoTip)]))

process_block(b, ctx) ==
    Let(check_known(b, ctx), LAMBDA k :
    IF k # "" THEN [ctx |-> ctx, res |-> Err(k)]
    ELSE
    Let(prev_header_store(b, ctx), LAMBDA p :
    IF p.err # "" THEN [ctx |-> ctx, res |-> Err(p.err)]
    ELSE IF b.prev_hash # ctx.head.last_block_h /\ p.prev.hash \notin ctx.blocks
    THEN Let(validate_pow_only(b, ctx), LAMBDA v :
             [ctx |-> v.ctx, res |-> Err(IF v.err # "" THEN v.err ELSE "Orphan")])
    ELSE
    Let(process_block_header(b, ctx), LAMBDA ph :
    IF ~ph.res.ok THEN ph
    ELSE IF ~b.body_ok THEN [ctx |-> ph.ctx, res |-> Err("InvalidBlockProof")]
    ELSE
    \* header_head and head are the tips read before process_block_header
    Let(extending_body(b, p.prev, ctx.header_head, ph.ctx), LAMBDA x :
    IF x.err # "" THEN [ctx |-> ph.ctx, res |-> Err(x.err)]
    ELSE
    Let([ph.ctx EXCEPT !.applied = [ommr |-> x.ext.ommr, rmmr |-> x.ext.rmmr,
                                    kmmr |-> x.ext.kmmr]], LAMBDA c1 :
        process_block_save(b, x.block_sums, ctx.head,
            IF x.commit
            THEN [c1 EXCEPT !.hmmr = x.ext.hmmr, !.ommr = x.ext.ommr,
                            !.rmmr = x.ext.rmmr, !.kmmr = x.ext.kmmr,
                            !.spent = x.ext.spent]
            ELSE c1))))))

\* The closure sync_block_headers runs inside txhashset::sync_extending.
RECURSIVE sync_apply(_, _, _)
sync_apply(headers, hmmr, saved) ==   \* saved: the child batch
    IF headers = <<>> THEN [err |-> "", hmmr |-> hmmr, saved |-> saved]
    ELSE Let(validate_root(hmmr, Head(headers)), LAMBDA v :
         IF v # "" THEN [err |-> v, hmmr |-> hmmr, saved |-> saved]
         ELSE sync_apply(Tail(headers), Append(hmmr, Head(headers).hash),
                         add_block_header(Head(headers), saved)))

\* A faulty variant of the validation loop that validates nothing.
sync_validate_skipped(headers, ctx) == [ctx |-> ctx, err |-> ""]

\* The loop of sync_block_headers that validates the headers of the slice.
RECURSIVE sync_validate(_, _)
sync_validate(headers, ctx) ==
    IF headers = <<>> THEN [ctx |-> ctx, err |-> ""]
    ELSE Let(validate_header(Head(headers), ctx), LAMBDA v :
         IF v.err # "" THEN v ELSE sync_validate(Tail(headers), v.ctx))

\* A faulty variant that processes a slice it already knows.
sync_block_headers_no_shortcut(headers, ctx) ==
    IF headers = <<>> THEN [ctx |-> ctx, res |-> Ok(NoTip)]
    ELSE
    LET first_header == headers[1]
        last_header == headers[Len(headers)]
        sync_head == ctx.sync_head
    IN
    IF first_header.prev_hash \notin ctx.headers
    THEN [ctx |-> ctx, res |-> Err("StoreErr")]
    ELSE
    Let(rewind_and_apply_header_fork(
            Block[first_header.prev_hash],
            [hmmr |-> ctx.hmmr, head |-> ctx.sync_head], ctx),
        LAMBDA f :
    IF f.err # "" THEN [ctx |-> ctx, res |-> Err(f.err)]
    ELSE
    Let(sync_apply(headers, f.ext.hmmr, ctx), LAMBDA a :
    IF a.err # "" THEN [ctx |-> ctx, res |-> Err(a.err)]
    ELSE
    Let(sync_validate(headers, [a.saved EXCEPT !.hmmr = a.hmmr]), LAMBDA v :
    IF v.err # "" THEN [ctx |-> v.ctx, res |-> Err(v.err)]
    ELSE [ ctx |-> IF has_more_work(last_header, sync_head)
                   THEN update_sync_head(from_header(last_header), v.ctx)
                   ELSE v.ctx,
           res |-> Ok(NoTip) ])))

sync_block_headers(headers, ctx) ==
    IF headers = <<>> THEN [ctx |-> ctx, res |-> Ok(NoTip)]
    ELSE
    LET first_header == headers[1]
        last_header == headers[Len(headers)]
        sync_head == ctx.sync_head
    IN
    IF first_header.prev_hash \notin ctx.headers
    THEN [ctx |-> ctx, res |-> Err("StoreErr")]
    ELSE IF last_header.hash \in ctx.headers /\ ~has_more_work(last_header, sync_head)
    THEN [ctx |-> ctx, res |-> Ok(NoTip)]
    ELSE
    Let(rewind_and_apply_header_fork(
            Block[first_header.prev_hash],
            [hmmr |-> ctx.hmmr, head |-> ctx.sync_head], ctx),
        LAMBDA f :
    IF f.err # "" THEN [ctx |-> ctx, res |-> Err(f.err)]
    ELSE
    Let(sync_apply(headers, f.ext.hmmr, ctx), LAMBDA a :
    IF a.err # "" THEN [ctx |-> ctx, res |-> Err(a.err)]
    ELSE
    Let(sync_validate(headers, [a.saved EXCEPT !.hmmr = a.hmmr]), LAMBDA v :
    IF v.err # "" THEN [ctx |-> v.ctx, res |-> Err(v.err)]
    ELSE [ ctx |-> IF has_more_work(last_header, sync_head)
                   THEN update_sync_head(from_header(last_header), v.ctx)
                   ELSE v.ctx,
           res |-> Ok(NoTip) ])))

\* ------------------------------------------------------------------------
\* The REST handlers for blocks, headers and outputs.  A handler returns
\* the HTTP status it answers with and the cause of the failure behind it:
\* "Argument" for malformed input, "NotFound" for an absent entity,
\* "Internal" for a store or chain failure, "" for none.

\* The last path element of a request: a height, the hex of a hash, the hex
\* of an output commitment, text with no run of 64 hex digits in it, or
\* such a run inside text that is not hex.
ApiPaths ==
    [t : {"height"}, v : 0..MaxApiHeight]
    \cup [t : {"hash", "commit"}, v : {1, 2, 5}]
    \cup [t : {"text", "hexrun"}, v : {0}]

\* The query parameters: "other" is any parameter the handler does not
\* know ("no_merkle_proof" acts like "include_proof" and is left out).
ApiParams == {"compact", "include_proof", "other"}

\* A request, and whether the chain fails while it is served.
Requests == [path : ApiPaths, query : SUBSET ApiParams, io_fails : BOOLEAN]

NoReply ==
    [ handler |-> "none", status |-> 0, cause |-> "",
      req |-> [path |-> [t |-> "text", v |-> 0], query |-> {},
               io_fails |-> FALSE] ]

ApiOk(v) == [ok |-> TRUE, kind |-> "", val |-> v]

ApiErr(kind) == [ok |-> FALSE, kind |-> kind, val |-> ZERO_HASH]

\* The chain as the handlers read it.
get_header_by_height(height, st, tx) ==
    IF height < Len(tx.hmmr) /\ tx.hmmr[height + 1] \in st.headers
    THEN ApiOk(tx.hmmr[height + 1]) ELSE ApiErr("NotFound")

\* rest / web: result_to_response and the answer to an ApiResult
result_to_response(res) ==
    IF res.ok THEN [status |-> 200, cause |-> ""]
    ELSE [ status |-> CASE res.kind = "Argument" -> 400
                        [] res.kind = "NotFound" -> 404
                        [] OTHER -> 500,
           cause |-> res.kind ]

response(status, cause) == [status |-> status, cause |-> cause]

\* check_block_param, then util::from_hex
hash_from_input(path) ==
    IF path.t = "text" THEN ApiErr("Argument")          \* check_block_param
    ELSE IF path.t = "hexrun" THEN ApiErr("Argument")   \* from_hex
    ELSE ApiOk(path.v)

\* BlockHandler::parse_input
parse_input(req, st, tx) ==
    IF req.path.t = "height"
    THEN get_header_by_height(req.path.v, st, tx)
    ELSE hash_from_input(req.path)

\* BlockHandler::get_block and get_compact_block
get_block(h, req, st) ==
    IF h \notin st.blocks \/ req.path.t = "commit" THEN ApiErr("NotFound")
    ELSE IF req.io_fails THEN ApiErr("Internal")
    ELSE ApiOk(h)

\* impl Handler for BlockHandler: get
BlockHandler_get(req, st, tx) ==
    Let(parse_input(req, st, tx), LAMBDA h :
        IF ~h.ok THEN response(400, h.kind)
        ELSE IF "other" \in req.query THEN response(400, "Argument")
        ELSE result_to_response(get_block(h.val, req, st)))

\* HeaderHandler::get_header_for_output: Ok for the commitment of an
\* unspent output whose header the chain finds.
get_header_for_output(req, st, tx) ==
    IF req.path.t = "commit" /\ ~req.io_fails
       /\ req.path.v \in Range(tx.ommr) \ tx.spent /\ req.path.v \in st.headers
    THEN ApiOk(req.path.v) ELSE ApiErr("NotFound")

\* HeaderHandler::get_header
get_header(req, st, tx) ==
    IF get_header_for_output(req, st, tx).ok THEN get_header_for_output(req, st, tx)
    ELSE IF req.path.t = "height"
    THEN get_header_by_height(req.path.v, st, tx)
    ELSE Let(hash_from_input(req.path), LAMBDA h :
         IF ~h.ok THEN h
         ELSE IF h.val \notin st.headers \/ req.path.t = "commit"
         THEN ApiErr("NotFound")
         ELSE h)

\* impl Handler for HeaderHandler: get
HeaderHandler_get(req, st, tx) == result_to_response(get_header(req, st, tx))

\* impl ApiEndpoint for OutputApi: get.  Every failure of
\* get_output_by_commit becomes Error::Internal.
OutputApi_get(req, st, tx) ==
    IF req.path.t \in {"text", "hexrun"}
    THEN result_to_response(ApiErr("Argument"))
    ELSE IF req.io_fails
    THEN [status |-> result_to_response(ApiErr("Internal")).status,
          cause |-> "Internal"]
    ELSE IF req.path.t # "commit" \/ req.path.v \notin Range(tx.ommr) \ tx.spent
    THEN [status |-> result_to_response(ApiErr("Internal")).status,
          cause |-> "NotFound"]
    ELSE result_to_response(ApiOk(req.path.v))

\* ------------------------------------------------------------------------
\* The node: the committed store, the txhashset and the options the node
\* passes in every BlockContext.  `accepted` lists the blocks process_block
\* accepted, in order of acceptance.

VARIABLES store, txhashset, accepted, opts, pending, seen, reply, walk

vars == <<store, txhashset, accepted, opts, pending, seen, reply, walk>>

\* No call is in progress.
NoWalk ==
    [ kind |-> "none", id |-> GENESIS, phase |-> "idle", current |-> GENESIS,
      hf |-> GENESIS, err |-> "", header_ext |-> <<>>, ext |-> <<>> ]

NoApplied == [ommr |-> <<>>, rmmr |-> <<>>, kmmr |-> <<>>]

\* Chain::init on an empty store: genesis saved, head and header_head on it.
InitStore ==
    [ headers |-> {GENESIS}, blocks |-> {GENESIS},
      block_sums |-> (GENESIS :> [utxo_sum |-> 0, kernel_sum |-> 0]),
      head |-> from_header(GenesisBlock),
      header_head |-> from_header(GenesisBlock),
      sync_head |-> from_header(GenesisBlock),
      body_tail |-> NoTip ]

InitTxHashSet ==
    [ hmmr |-> <<GENESIS>>, ommr |-> GenesisBlock.outputs,
      rmmr |-> GenesisBlock.outputs, kmmr |-> GenesisBlock.kernels,
      spent |-> {} ]

Init ==
    /\ store = InitStore
    /\ txhashset = InitTxHashSet
    /\ accepted = <<>>
    /\ opts \in OptionSets
    /\ pending = <<>>
    /\ seen = [kind |-> "none", tip |-> NoTip]
    /\ reply = NoReply
    /\ walk = NoWalk

\* Chain::new_ctx: a fresh batch over a store and the live txhashset, with
\* an empty log of pow_verifier invocations.
ctx_over(st, tx, o) ==
    st @@ tx @@
    [opts |-> o, pow_invoked |-> {}, pow_passed |-> {}, applied |-> NoApplied]

new_ctx == ctx_over(store, txhashset, opts)

\* The caller's end of a call on store `st`: the batch is committed when
\* the pipeline returned Ok and dropped otherwise.
store_after(st, out) ==
    IF out.res.ok THEN [k \in DOMAIN st |-> out.ctx[k]] ELSE st

\* What the extensions of the call committed to the txhashset stays,
\* whatever the call returned.
txhashset_after(out) == [k \in DOMAIN InitTxHashSet |-> out.ctx[k]]

Finish(out) ==
    /\ store' = store_after(store, out)
    /\ txhashset' = txhashset_after(out)

\* The blocks and headers submitted to the three entry points.
SpecIds == {1, 2, 4, 5, 6, 7, 8, 9}

\* The contiguous slices a peer may send to sync_block_headers.
Slices ==
    {<<>>} \cup
    UNION { { s \in [1..n -> SpecIds] :
                \A i \in 1..(n - 1) : Block[s[i + 1]].prev_hash = s[i] }
            : n \in 1..MaxSlice }

HeadersOf(s) == [i \in DOMAIN s |-> Block[s[i]]]

ProcessBlock ==
    \E id \in SpecIds :
        /\ Finish(process_block(Block[id], new_ctx))
        /\ UNCHANGED <<accepted, opts, pending, seen, reply, walk>>

ProcessBlockHeader ==
    \E id \in SpecIds :
        /\ Finish(process_block_header(Block[id], new_ctx))
        /\ UNCHANGED <<accepted, opts, pending, seen, reply, walk>>

SyncBlockHeaders ==
    \E s \in Slices :
        /\ Finish(sync_block_headers(HeadersOf(s), new_ctx))
        /\ UNCHANGED <<accepted, opts, pending, seen, reply, walk>>

Next == ProcessBlock \/ ProcessBlockHeader \/ SyncBlockHeaders

Spec == Init /\ [][Next]_vars

\* Honest blocks only, through process_block only, in any order: a block
\* refused as an orphan is submitted again later.
SubmitValid ==
    \E id \in ValidIds :
        \E out \in {process_block(Block[id], new_ctx)} :
            /\ Finish(out)
            /\ accepted' = IF out.res.ok THEN Append(accepted, id) ELSE accepted
            /\ UNCHANGED <<opts, pending, seen, reply, walk>>

SpecValid == Init /\ [][SubmitValid]_vars

\* The deep-fork scenario: the long chain is submitted in order and
\* block 4, a fork at height 1, at any time.
DeepInputs == DeepIds \cup {4}

SubmitDeep ==
    \E id \in DeepInputs :
        \E out \in {process_block(Block[id], new_ctx)} :
            /\ Finish(out)
            /\ accepted' = IF out.res.ok THEN Append(accepted, id) ELSE accepted
            /\ UNCHANGED <<opts, pending, seen, reply, walk>>

SpecDeep == Init /\ [][SubmitDeep]_vars

\* The reorg scenario: the blocks of chains A and B through process_block.
SubmitReorg ==
    \E id \in ReorgA \cup ReorgB :
        \E out \in {process_block(Block[id], new_ctx)} :
            /\ Finish(out)
            /\ accepted' = IF out.res.ok THEN Append(accepted, id) ELSE accepted
            /\ UNCHANGED <<opts, pending, seen, reply, walk>>

SpecReorg == Init /\ [][SubmitReorg]_vars

\* The coinbase-maturity scenario: its blocks and the first blocks of the
\* long chain through process_block, so that either chain may be the fork.
MatInputs == MatIds \cup (DeepBase + 1)..(DeepBase + COINBASE_MATURITY + 2)

SubmitMat ==
    \E id \in MatInputs :
        \E out \in {process_block(Block[id], new_ctx)} :
            /\ Finish(out)
            /\ accepted' = IF out.res.ok THEN Append(accepted, id) ELSE accepted
            /\ UNCHANGED <<opts, pending, seen, reply, walk>>

SpecMat == Init /\ [][SubmitMat]_vars

\* The single writer and a concurrent reader.  A call of the writer runs
\* on a batch over the committed store; `pending` holds the store as the
\* batch will leave it, until the caller commits the batch (or drops it,
\* after an error).  The reader reads one tip of the committed store at a
\* time and keeps it in `seen`.
ReaderIds == {1, 2, 4, 5, 8}

ReaderSlices ==
    UNION { { sl \in [1..n -> ReaderIds] :
                \A i \in 1..(n - 1) : Block[sl[i + 1]].prev_hash = sl[i] }
            : n \in 1..MaxSlice }

TipKinds == {"head", "header_head", "sync_head"}

BeginCall(out) ==
    /\ pending = <<>>
    /\ pending' = <<store_after(store, out)>>
    /\ txhashset' = txhashset_after(out)

WriterProcessBlock ==
    \E id \in ReaderIds :
        /\ BeginCall(process_block(Block[id], new_ctx))
        /\ UNCHANGED <<store, accepted, opts, seen, reply, walk>>

WriterProcessBlockHeader ==
    \E id \in ReaderIds :
        /\ BeginCall(process_block_header(Block[id], new_ctx))
        /\ UNCHANGED <<store, accepted, opts, seen, reply, walk>>

WriterSyncBlockHeaders ==
    \E sl \in ReaderSlices :
        /\ BeginCall(sync_block_headers(HeadersOf(sl), new_ctx))
        /\ UNCHANGED <<store, accepted, opts, seen, reply, walk>>

\* batch.commit(): every write of the batch becomes visible at once.
Commit ==
    /\ pending # <<>>
    /\ store' = pending[1]
    /\ pending' = <<>>
    /\ UNCHANGED <<txhashset, accepted, opts, seen, reply, walk>>

ReadTip ==
    \E k \in TipKinds :
        /\ seen' = [kind |-> k, tip |-> store[k]]
        /\ UNCHANGED <<store, txhashset, accepted, opts, pending, reply, walk>>

NextReaders ==
    \/ WriterProcessBlock \/ WriterProcessBlockHeader \/ WriterSyncBlockHeaders
    \/ Commit \/ ReadTip

SpecReaders == Init /\ [][NextReaders]_vars

\* The REST facade: requests served while blocks are accepted.
ApiBlockIds == {1, 2}

SubmitApiBlock ==
    \E id \in ApiBlockIds :
        /\ Finish(process_block(Block[id], new_ctx))
        /\ UNCHANGED <<accepted, opts, pending, seen, reply, walk>>

Answered(handler, req, res) ==
    [handler |-> handler, req |-> req, status |-> res.status, cause |-> res.cause]

GetBlock ==
    \E req \in Requests :
        /\ reply' = Answered("blocks", req, BlockHandler_get(req, store, txhashset))
        /\ UNCHANGED <<store, txhashset, accepted, opts, pending, seen, walk>>

\* The header and output handlers read no query parameter.
GetHeader ==
    \E req \in Requests :
        /\ req.query = {}
        /\ reply' = Answered("headers", req, HeaderHandler_get(req, store, txhashset))
        /\ UNCHANGED <<store, txhashset, accepted, opts, pending, seen, walk>>

GetOutput ==
    \E req \in Requests :
        /\ req.query = {}
        /\ reply' = Answered("outputs", req, OutputApi_get(req, store, txhashset))
        /\ UNCHANGED <<store, txhashset, accepted, opts, pending, seen, walk>>

NextApi == SubmitApiBlock \/ GetBlock \/ GetHeader \/ GetOutput

SpecApi == Init /\ [][NextApi]_vars

\* Header sync: headers only, one at a time through process_block_header or
\* in slices through sync_block_headers; among them a header at the wrong
\* height and one with its parent's timestamp.
HeaderIds == {1, 2, 3, 4, 6, 15}

HeaderSlices ==
    UNION { { sl \in [1..n -> HeaderIds] :
                \A i \in 1..(n - 1) : Block[sl[i + 1]].prev_hash = sl[i] }
            : n \in 1..MaxSlice }

SubmitHeader ==
    \E id \in HeaderIds :
        /\ Finish(process_block_header(Block[id], new_ctx))
        /\ UNCHANGED <<accepted, opts, pending, seen, reply, walk>>

SubmitHeaders ==
    \E sl \in HeaderSlices :
        /\ Finish(sync_block_headers(HeadersOf(sl), new_ctx))
        /\ UNCHANGED <<accepted, opts, pending, seen, reply, walk>>

NextHeaders == SubmitHeader \/ SubmitHeaders

SpecHeaders == Init /\ [][NextHeaders]_vars

\* ------------------------------------------------------------------------
\* What a call would do in the current state.

CallBlock(id) == process_block(Block[id], new_ctx)

CallHeader(id) == process_block_header(Block[id], new_ctx)

CallSync(s) == sync_block_headers(HeadersOf(s), new_ctx)

\* The three body MMRs hold the roots and sizes header `h` declares.
BodyMatches(tx, h) ==
    /\ tx.ommr = h.output_root /\ tx.rmmr = h.rproof_root /\ tx.kmmr = h.kernel_root
    /\ Len(tx.ommr) = h.output_mmr_size /\ Len(tx.rmmr) = h.output_mmr_size
    /\ Len(tx.kmmr) = h.kernel_mmr_size

PowErrors ==
    {"LowEdgebits", "InvalidPow", "DifficultyTooLow", "WrongTotalDifficulty",
     "InvalidScaling"}

\* ------------------------------------------------------------------------
\* C1.  A call of process_block that returns an error, of whatever kind and
\* at whatever step, leaves the store and all four MMRs as they were.
C1_RejectedBlockLeavesNoTrace ==
    \A id \in SpecIds :
        LET out == CallBlock(id)
        IN  ~out.res.ok =>
              /\ store_after(store, out) = store
              /\ txhashset_after(out) = txhashset

\* ------------------------------------------------------------------------
\* C3.  head.total_difficulty never decreases over a process_block call: a
\* successful call leaves head alone or replaces it by a tip of strictly
\* more work, a failed call leaves it alone.
C3_HeadWorkNeverDecreases ==
    \A id \in SpecIds :
        LET out == CallBlock(id)
            new == store_after(store, out).head
        IN  /\ new.total_difficulty >= store.head.total_difficulty
            /\ new # store.head =>
                 out.res.ok /\ new.total_difficulty > store.head.total_difficulty
            /\ ~out.res.ok => new = store.head

\* C3 witness: with head already above genesis, one block advances head and
\* another is accepted without changing it.
C3_Witness ==
    /\ store.head.height > 0
    /\ \E id \in SpecIds :
         CallBlock(id).res.ok /\ store_after(store, CallBlock(id)).head # store.head
    /\ \E id \in SpecIds :
         CallBlock(id).res.ok /\ store_after(store, CallBlock(id)).head = store.head

\* ------------------------------------------------------------------------
\* C4.  head, header_head and sync_head each reference a stored header,
\* and head has no more work than header_head.
C4_TipsReferenceStoredHeaders ==
    /\ store.head.last_block_h \in store.headers
    /\ store.header_head.last_block_h \in store.headers
    /\ store.sync_head.last_block_h \in store.headers
    /\ store.head.total_difficulty <= store.header_head.total_difficulty

\* C4 witness: all three tips have moved, and header_head is ahead of head.
C4_Witness ==
    /\ store.head.height > 0
    /\ store.sync_head.height > 0
    /\ store.header_head.total_difficulty > store.head.total_difficulty

\* ------------------------------------------------------------------------
\* C6.  process_block returns Ok(Some(tip)) exactly when the call changed
\* head, and then tip is the new head and Tip::from_header of the block; it
\* returns Ok(None) exactly when it succeeded and head is unchanged.
C6_ReturnsTipIffHeadChanged ==
    \A id \in SpecIds :
        LET out == CallBlock(id)
            new == store_after(store, out).head
        IN  /\ (out.res.ok /\ out.res.val # NoTip) <=> new # store.head
            /\ new # store.head =>
                 out.res.val = new /\ new = from_header(Block[id])
            /\ (out.res.ok /\ out.res.val = NoTip) <=> (out.res.ok /\ new = store.head)

\* C6 witness: one block returns Some(tip), another returns None.
C6_Witness ==
    /\ \E id \in SpecIds : CallBlock(id).res.ok /\ CallBlock(id).res.val # NoTip
    /\ \E id \in SpecIds : CallBlock(id).res.ok /\ CallBlock(id).res.val = NoTip

\* ------------------------------------------------------------------------
\* C7.  process_block returns Ok only if the output, range-proof and kernel
\* MMRs, right after the block was applied in the extension, had the roots
\* and sizes its header declares; and after a successful call the committed
\* three MMRs have the roots and sizes the header of head declares.
C7_RootsMatchHeader ==
    \A id \in SpecIds :
        LET out == CallBlock(id)
        IN  out.res.ok =>
              /\ BodyMatches(out.ctx.applied, Block[id])
              /\ BodyMatches(txhashset_after(out),
                             Block[store_after(store, out).head.last_block_h])

\* C7 witness: a block is accepted on a side fork, head staying above genesis.
C7_Witness ==
    /\ store.head.height > 1
    /\ \E id \in SpecIds :
         /\ CallBlock(id).res.ok
         /\ store_after(store, CallBlock(id)).head = store.head

\* ------------------------------------------------------------------------
\* C9.  Whenever process_block returns Orphan, pow_verifier was invoked on
\* the block's header and succeeded, and the PoW is primary or secondary.
C9_OrphanHasValidPow ==
    \A id \in SpecIds :
        LET out == CallBlock(id)
        IN  out.res.err = "Orphan" =>
              /\ id \in out.ctx.pow_passed
              /\ Block[id].is_primary \/ Block[id].is_secondary

\* ------------------------------------------------------------------------
\* C10.  With SKIP_POW set no entry point runs a PoW check: pow_verifier is
\* not invoked and no PoW error is returned.
NoPowCheck(out) == out.ctx.pow_invoked = {} /\ out.res.err \notin PowErrors

C10_SkipPowSkipsEveryPowCheck ==
    SKIP_POW \in opts =>
      /\ \A id \in SpecIds : NoPowCheck(CallBlock(id)) /\ NoPowCheck(CallHeader(id))
      /\ \A s \in Slices : NoPowCheck(CallSync(s))

\* ------------------------------------------------------------------------
\* Forks among the accepted blocks.

\* a is b or an ancestor of b
RECURSIVE IsAncestor(_, _)
IsAncestor(a, b) ==
    \/ a = b
    \/ b # GENESIS /\ IsAncestor(a, Block[b].prev_hash)

Accepted == Range(accepted)

\* the position of an accepted block in the order of acceptance
Pos(id) == CHOOSE i \in DOMAIN accepted : accepted[i] = id

\* Exactly two competing forks have been submitted in full: t1 and t2 are
\* the tips, neither extends the other, and every accepted block is on one
\* of the two.
TwoForks(t1, t2) ==
    /\ t1 \in Accepted /\ t2 \in Accepted
    /\ ~IsAncestor(t1, t2) /\ ~IsAncestor(t2, t1)
    /\ \A b \in Accepted : IsAncestor(b, t1) \/ IsAncestor(b, t2)

\* C2.  With two competing forks submitted in full, head is the tip with
\* strictly more work whichever arrived first; with equal work head is the
\* tip accepted first.
C2_ForksConverge ==
    \A t1, t2 \in Accepted :
        TwoForks(t1, t2) =>
          /\ Block[t1].total_difficulty > Block[t2].total_difficulty
               => store.head = from_header(Block[t1])
          /\ (Block[t1].total_difficulty = Block[t2].total_difficulty
              /\ Pos(t1) < Pos(t2))
               => store.head = from_header(Block[t1])

\* C2 witness: both forks are at least two blocks long, the one with
\* strictly more work was completed last, and its tip is head.
C2_Witness ==
    \E t1, t2 \in Accepted :
        /\ TwoForks(t1, t2)
        /\ Block[t1].height > 1 /\ Block[t2].height > 1
        /\ Block[t1].total_difficulty > Block[t2].total_difficulty
        /\ accepted[Len(accepted)] = t1
        /\ Pos(t2) < Pos(Block[t1].prev_hash)
        /\ store.head.last_block_h = t1

\* ------------------------------------------------------------------------
\* Submission in height order.

RECURSIVE Perms(_)
Perms(S) ==
    IF S = {} THEN {<<>>}
    ELSE UNION { { <<x>> \o p : p \in Perms(S \ {x}) } : x \in S }

\* every order of S that is ascending in height
RECURSIVE HeightOrders(_, _)
HeightOrders(S, h) ==
    IF S = {} THEN {<<>>}
    ELSE LET level == {x \in S : Block[x].height = h}
         IN  { p \o q : p \in Perms(level), q \in HeightOrders(S \ level, h + 1) }

\* the store after the blocks of `order` went through process_block one
\* after the other, starting from `st` and `tx`
RECURSIVE SubmitAll(_, _, _)
SubmitAll(order, st, tx) ==
    IF order = <<>> THEN st
    ELSE LET out == process_block(Block[Head(order)], ctx_over(st, tx, opts))
         IN  SubmitAll(Tail(order), store_after(st, out), txhashset_after(out))

HeightOrderHeads ==
    { SubmitAll(order, InitStore, InitTxHashSet).head :
        order \in HeightOrders(Accepted, 1) }

\* C5.  The accepted blocks, submitted in any order with orphans submitted
\* again after their parents, leave the head that submission in height
\* order leaves.
C5_HeadIsHeightOrderHead == store.head \in HeightOrderHeads

\* C5, amended: the head has the total difficulty of the height-order
\* head, and is that head whenever no other accepted block has as much.
C5_HeadHasHeightOrderWork ==
    \A h \in HeightOrderHeads :
        /\ store.head.total_difficulty = h.total_difficulty
        /\ (\A b \in Accepted : Block[b].total_difficulty = h.total_difficulty
                                  => b = h.last_block_h)
             => store.head = h

\* C5 witness: every honest block is accepted, some block after one of
\* greater height (it had been an orphan, or arrived late on a fork).
C5_Witness ==
    /\ Accepted = ValidIds
    /\ \E i, j \in DOMAIN accepted :
         i < j /\ Block[accepted[i]].height > Block[accepted[j]].height

\* ------------------------------------------------------------------------
\* Submitting a block again right after it was accepted.

SecondCall(id) ==
    LET first == CallBlock(id)
        st == store_after(store, first)
        tx == txhashset_after(first)
        second == process_block(Block[id], ctx_over(st, tx, opts))
    IN  [ first |-> first, second |-> second, head |-> st.head,
          unchanged |-> store_after(st, second) = st /\ txhashset_after(second) = tx ]

\* C8.  A block submitted again right after process_block accepted it, as
\* head or on a side fork, is refused as Unfit and nothing changes.
C8_DuplicateIsUnfit ==
    \A id \in DeepInputs :
        LET c == SecondCall(id)
        IN  c.first.res.ok => c.second.res.err = "Unfit" /\ c.unchanged

\* C8, amended: it is refused as Unfit, or as OldBlock when its height is
\* more than 50 below head's, and nothing changes.
C8_DuplicateIsUnfitOrOld ==
    \A id \in DeepInputs :
        LET c == SecondCall(id)
        IN  c.first.res.ok =>
              /\ c.second.res.err =
                   IF Block[id].height + OLD_BLOCK_HORIZON < c.head.height
                   THEN "OldBlock" ELSE "Unfit"
              /\ c.unchanged

\* C8 witness: a block accepted on a side fork more than 50 below head is
\* refused as OldBlock the second time.
C8_Witness ==
    \E id \in DeepInputs :
        /\ SecondCall(id).first.res.ok
        /\ SecondCall(id).first.res.val = NoTip
        /\ SecondCall(id).second.res.err = "OldBlock"
        /\ SecondCall(id).unchanged

\* ------------------------------------------------------------------------
\* C11.  process_block_header on a header whose previous header is not in
\* the store returns Orphan and changes nothing.
C11_HeaderWithoutPrevIsOrphan ==
    \A id \in SpecIds :
        Block[id].prev_hash \notin store.headers =>
          \A out \in {CallHeader(id)} :
              /\ out.res.err = "Orphan"
              /\ store_after(store, out) = store
              /\ txhashset_after(out) = txhashset

\* ------------------------------------------------------------------------
\* C12.  process_block_header on a known header (the head or its parent, a
\* stored block, or a stored header with no more work than header_head; the
\* previous header being stored, as it is for every stored header) returns
\* Ok(()) and writes nothing: no batch write, no MMR change, no run of
\* validate_header, so that repeating the call changes nothing either.
KnownHeader(id) ==
    \/ id = store.head.last_block_h
    \/ id = store.head.prev_block_h
    \/ id \in store.blocks
    \/ /\ id \in store.headers
       /\ Block[id].total_difficulty <= store.header_head.total_difficulty

C12_KnownHeaderIsNoOp ==
    \A id \in SpecIds :
        KnownHeader(id) =>
          \A out \in {CallHeader(id)} :
              /\ out.res = Ok(NoTip)
              /\ out.ctx = new_ctx
              /\ process_block_header(
                     Block[id],
                     ctx_over(store_after(store, out), txhashset_after(out), opts)) = out

\* C12 witness: one header is known as a stored block off the head, another
\* as a stored header without its block, and PoW checks are on.
C12_Witness ==
    /\ opts = {}
    /\ \E id \in SpecIds :
         /\ id \in store.blocks
         /\ id \notin {store.head.last_block_h, store.head.prev_block_h}
    /\ \E id \in SpecIds : id \in store.headers \ store.blocks /\ KnownHeader(id)

\* ------------------------------------------------------------------------
\* C13.  When process_block succeeds for a block with no more work than
\* head, the block and its BlockSums are saved, head, header_head and
\* sync_head stay, the output, range-proof and kernel MMRs are as before the
\* call, and every block stored before is still stored; no call of any entry
\* point removes a stored block or header.
BodyOf(tx) == [k \in {"ommr", "rmmr", "kmmr", "spent"} |-> tx[k]]

Keeps(after) ==
    /\ store.blocks \subseteq after.blocks
    /\ store.headers \subseteq after.headers
    /\ \A h \in store.blocks : after.block_sums[h] = store.block_sums[h]

C13_SideForkBlockIsStoredOnly ==
    /\ \A id \in SpecIds :
         \A out \in {CallBlock(id)} :
             \A after \in {store_after(store, out)} :
                 /\ Keeps(after)
                 /\ (/\ out.res.ok
                     /\ Block[id].total_difficulty <= store.head.total_difficulty)
                    => /\ id \in after.blocks
                       /\ id \in DOMAIN after.block_sums
                       /\ after.head = store.head
                       /\ after.header_head = store.header_head
                       /\ after.sync_head = store.sync_head
                       /\ BodyOf(txhashset_after(out)) = BodyOf(txhashset)
    /\ \A id \in SpecIds : Keeps(store_after(store, CallHeader(id)))
    /\ \A sl \in Slices : Keeps(store_after(store, CallSync(sl)))

\* C13 witness: a block is accepted with no more work than head while
\* another block of its height is stored, the body MMRs being those of a
\* chain two blocks long.
C13_Witness ==
    /\ Len(txhashset.ommr) > 2
    /\ \E id \in SpecIds :
         /\ CallBlock(id).res.ok
         /\ Block[id].total_difficulty <= store.head.total_difficulty
         /\ \E other \in store.blocks :
              other # id /\ Block[other].height = Block[id].height

\* ------------------------------------------------------------------------
\* C14.  sync_block_headers advances no tip unless every header of the
\* slice passed validate_header: sync_head is written only after the loop
\* succeeded for all of them, and only to the last header when it has more
\* work than the sync_head read at the start; a call that fails leaves
\* sync_head, header_head and head alone, and no call touches header_head
\* or head.

\* the batch with every header of the slice saved, as the loop reads it
WithSaved(headers, ctx) ==
    [ctx EXCEPT !.headers = @ \cup {headers[i].hash : i \in DOMAIN headers}]

C14_SyncHeadOnlyAfterValidation ==
    \A sl \in Slices :
        \A out \in {CallSync(sl)} :
            \A after \in {store_after(store, out)} :
                /\ after.head = store.head
                /\ after.header_head = store.header_head
                /\ ~out.res.ok => after.sync_head = store.sync_head
                /\ after.sync_head # store.sync_head =>
                     /\ \A i \in DOMAIN sl :
                          validate_header(Block[sl[i]],
                                          WithSaved(HeadersOf(sl), new_ctx)).err = ""
                     /\ after.sync_head = from_header(Block[sl[Len(sl)]])
                     /\ Block[sl[Len(sl)]].total_difficulty
                          > store.sync_head.total_difficulty

\* C14 witness: PoW checks being on, one slice of two headers advances
\* sync_head and another, whose last header breaks a rule, is refused after
\* its headers were applied to the header MMR.
C14_Witness ==
    /\ opts = {}
    /\ \E sl \in Slices :
         /\ Len(sl) = 2
         /\ store_after(store, CallSync(sl)).sync_head # store.sync_head
    /\ \E sl \in Slices :
         /\ Len(sl) = 2
         /\ CallSync(sl).res.err \in {"InvalidBlockTime", "InvalidPow"}
         /\ CallSync(sl).ctx.hmmr # txhashset.hmmr

\* ------------------------------------------------------------------------
\* C15.  In every committed store each header other than genesis has a
\* prev_hash that is a stored header and the height of that header plus
\* one, whether process_block_header or sync_block_headers stored it.
C15_StoredHeadersAreLinked ==
    \A h \in store.headers \ {GENESIS} :
        /\ Block[h].prev_hash \in store.headers
        /\ Block[h].height = Block[Block[h].prev_hash].height + 1

\* C15 witness: headers were stored by both entry points, and a header at
\* the wrong height on a stored parent is refused by both, by
\* sync_block_headers after it applied the header to the header MMR.
C15_Witness ==
    /\ store.header_head.height > 0
    /\ store.sync_head.height > 1
    /\ \E id \in HeaderIds :
         /\ Block[id].prev_hash \in store.headers
         /\ Block[id].height # Block[Block[id].prev_hash].height + 1
         /\ CallHeader(id).res.err = "InvalidBlockHeight"
         /\ sync_block_headers(<<Block[id]>>, new_ctx).res.err = "InvalidBlockHeight"
         /\ id \in Range(sync_block_headers(<<Block[id]>>, new_ctx).ctx.hmmr)

\* ------------------------------------------------------------------------
\* C16.  A header that does not come after its previous header in time,
\* with a valid version, a valid proof of work and the height of its
\* previous header plus one.
BackInTime(id) ==
    /\ id # GENESIS
    /\ Block[id].timestamp <= Block[Block[id].prev_hash].timestamp
    /\ Block[id].version = VALID_VERSION
    /\ (Block[id].is_primary \/ Block[id].is_secondary) /\ Block[id].pow_ok
    /\ Block[id].height = Block[Block[id].prev_hash].height + 1

\* No tip of the committed store is such a header.
NoTipBackInTime(st) ==
    \A tip \in {st.head, st.header_head, st.sync_head} :
        ~BackInTime(tip.last_block_h)

\* The slices that end in header `id`, hold honest headers before it and
\* start on a stored header.
SlicesEndingIn(id) ==
    { sl \in Slices :
        /\ sl # <<>> /\ sl[Len(sl)] = id
        /\ \A i \in 1..(Len(sl) - 1) : sl[i] \in ValidIds
        /\ Block[sl[1]].prev_hash \in store.headers }

\* C16: whenever the previous header of such a header is stored,
\* process_block_header rejects it with InvalidBlockTime, and so does
\* process_block when the previous block is stored too (an orphan is
\* returned as Orphan before any header is validated) and
\* sync_block_headers for a slice that ends in it; no tip is ever such a
\* header.
C16_BackInTimeIsInvalidBlockTime ==
    /\ NoTipBackInTime(store)
    /\ \A id \in SpecIds :
         BackInTime(id) =>
           /\ Block[id].prev_hash \in store.headers =>
                CallHeader(id).res.err = "InvalidBlockTime"
           /\ Block[id].prev_hash \in store.headers \cap store.blocks =>
                CallBlock(id).res.err = "InvalidBlockTime"
           /\ \A sl \in SlicesEndingIn(id) :
                CallSync(sl).res.err = "InvalidBlockTime"

\* ------------------------------------------------------------------------
\* C17.  Reorg.  Chain A of ReorgLen blocks is accepted; chain B shares
\* its first ReorgShared blocks and has more work at height ReorgLen.
TipA == DeepBase + ReorgLen

TipB == ReorgBase + ReorgLen

\* Chain A was accepted, then the first j blocks of B's own, in order.
ReorgReady(j) ==
    accepted = [i \in 1..(ReorgLen + j) |->
                   IF i <= ReorgLen THEN DeepBase + i
                   ELSE ReorgBase + ReorgShared + (i - ReorgLen)]

\* Store `st` and txhashset `tx` after the reorg, holding `n` blocks
\* besides genesis.
Reorged(st, tx, n) ==
    /\ st.head = from_header(Block[TipB])
    /\ ReorgA \cup ReorgB \subseteq st.blocks
    /\ Cardinality(st.blocks \ {GENESIS}) = n
    /\ BodyMatches(tx, Block[TipB])

\* Every block of B submitted in order is accepted, and after the last
\* one the state is Reorged with `n` blocks, as is every state that holds
\* the blocks of both chains.
ReorgEndsWith(n) ==
    /\ \A j \in 0..(ReorgLen - ReorgShared - 1) :
         ReorgReady(j) =>
           \A out \in {CallBlock(ReorgBase + ReorgShared + j + 1)} :
               /\ out.res.ok
               /\ j = ReorgLen - ReorgShared - 1 =>
                    /\ out.res = Ok(from_header(Block[TipB]))
                    /\ Reorged(store_after(store, out), txhashset_after(out), n)
    /\ ReorgA \cup ReorgB \subseteq store.blocks => Reorged(store, txhashset, n)

\* C17 as stated: submitting B's blocks in order leaves, after the last
\* one, head on B's tip, the body MMRs as B's tip header declares them and
\* twice ReorgLen blocks (20) in the store.
C17_ReorgStoresTwiceLenBlocks == ReorgEndsWith(2 * ReorgLen)

\* C17 amended: the same with the blocks of both chains in the store, which
\* are ReorgLen blocks of A and the ReorgLen - ReorgShared blocks of B's
\* own (13): the shared blocks are stored once.
C17_ReorgStoresBothChains == ReorgEndsWith(2 * ReorgLen - ReorgShared)

\* C17 witness: A was accepted, then B in order, and the last block of B
\* moved the head off A's tip, rewinding the blocks of A above the fork.
C17_Witness ==
    /\ Len(accepted) = 2 * ReorgLen - ReorgShared
    /\ \A i \in 1..ReorgLen : accepted[i] = DeepBase + i
    /\ \A i \in 1..(ReorgLen - ReorgShared) :
           accepted[ReorgLen + i] = ReorgBase + ReorgShared + i
    /\ store.head.last_block_h = TipB
    /\ TipA \in store.blocks /\ TipA \notin Range(txhashset.ommr)
    /\ Block[TipB].total_difficulty > Block[TipA].total_difficulty

\* ------------------------------------------------------------------------
\* C18.  The coinbase outputs block `b` spends, and the height at which
\* each was included.
CoinbaseSpent(b) == {o \in b.inputs : o \in Block[o].coinbase}

Immature(b) ==
    \E o \in CoinbaseSpent(b) : b.height < Block[o].height + COINBASE_MATURITY

JustMatured(b) ==
    /\ CoinbaseSpent(b) # {}
    /\ \A o \in CoinbaseSpent(b) : b.height = Block[o].height + COINBASE_MATURITY

\* C18: a new block on a stored block, on the head chain or on a fork, is
\* rejected with ImmatureCoinbase when it spends a coinbase output before
\* COINBASE_MATURITY blocks, and passes the maturity check and is accepted
\* when it spends it in the first block that may.
C18_CoinbaseMaturity ==
    \A id \in MatInputs \ store.blocks :
        Block[id].prev_hash \in store.blocks =>
          \A out \in {CallBlock(id)} :
              /\ Immature(Block[id]) => out.res.err = "ImmatureCoinbase"
              /\ JustMatured(Block[id]) => out.res.ok

\* ------------------------------------------------------------------------
\* C19.  What store `st` shows of the data tip `tip` of kind `k` points
\* to: the header, and for head the block and its BlockSums as well.
Visible(st, k, tip) ==
    /\ tip.last_block_h \in st.headers
    /\ k = "head" => /\ tip.last_block_h \in st.blocks
                     /\ tip.last_block_h \in DOMAIN st.block_sums

\* C19: whatever the writer is doing, every tip of the committed store, and
\* the tip a reader read from it earlier, points to data the committed
\* store shows.
C19_ReaderNeverSeesDanglingTip ==
    /\ \A k \in TipKinds : Visible(store, k, store[k])
    /\ seen.kind \in TipKinds => Visible(store, seen.kind, seen.tip)

\* C19 witness: the reader holds a head it read after a commit while the
\* writer has a batch in flight that moves the head and adds the block.
C19_Witness ==
    /\ seen.kind = "head" /\ seen.tip = store.head /\ seen.tip.height > 0
    /\ pending # <<>>
    /\ pending[1].head # store.head
    /\ pending[1].head.last_block_h \notin store.blocks

\* ------------------------------------------------------------------------
\* C20: every handler answers a failure caused by a malformed argument
\* with 400, by an absent entity with 404 and by an internal or store
\* error with 500; among them GET /v1/blocks/<height> for a height with no
\* header and the lookup of an output commitment that is not in the chain,
\* both 404.
C20_ErrorsMapToStatus ==
    /\ reply.cause = "Argument" => reply.status = 400
    /\ reply.cause = "NotFound" => reply.status = 404
    /\ reply.cause = "Internal" => reply.status = 500

C22_HeaderSavedAndHeadByWork ==
    \A id \in SpecIds \ store.headers :
      \A out \in {CallHeader(id)} :
        out.res.ok =>
          \A after \in {store_after(store, out)} :
            /\ after.headers = store.headers \cup {id}
            /\ IF Block[id].total_difficulty > store.header_head.total_difficulty
               THEN /\ after.header_head = from_header(Block[id])
                    /\ txhashset_after(out).hmmr = Append(Block[id].prev_root, id)
               ELSE /\ after.header_head = store.header_head
                    /\ txhashset_after(out).hmmr = txhashset.hmmr

\* C22 witness: one new header passes without more work than header_head,
\* on a fork the header MMR is not on, and another passes with more work.
C22_Witness ==
    /\ \E id \in SpecIds \ store.headers :
         /\ CallHeader(id).res.ok
         /\ Block[id].total_difficulty <= store.header_head.total_difficulty
         /\ txhashset.hmmr # Block[id].prev_root
    /\ \E id \in SpecIds \ store.headers :
         /\ CallHeader(id).res.ok
         /\ Block[id].total_difficulty > store.header_head.total_difficulty

\* ------------------------------------------------------------------------
\* C23.  rewind_and_apply_fork as process_block calls it.

\* process_block(Block[id]) reaches its extension: the block is not known,
\* its previous block is stored (or is head), its header is accepted and
\* its body is valid.
ForkReached(id) ==
    /\ check_known(Block[id], new_ctx) = ""
    /\ Block[id].prev_hash \in store.headers
    /\ \/ Block[id].prev_hash = store.head.last_block_h
       \/ Block[id].prev_hash \in store.blocks
    /\ CallHeader(id).res.ok
    /\ Block[id].body_ok

\* the context and the extension the closure starts from
ForkCtx(id) == CallHeader(id).ctx

ForkExt(id) ==
    [ hmmr |-> ForkCtx(id).hmmr, ommr |-> ForkCtx(id).ommr, rmmr |-> ForkCtx(id).rmmr,
      kmmr |-> ForkCtx(id).kmmr, spent |-> ForkCtx(id).spent,
      header |-> store.head.last_block_h ]

\* the two walks and the whole of rewind_and_apply_fork for that call
ForkFirstWalk(id) ==
    header_forked_walk(Block[store.header_head.last_block_h], ForkCtx(id).hmmr,
                       ForkCtx(id))

ForkSecondWalk(id) ==
    fork_walk(Block[Block[id].prev_hash], <<>>, ForkFirstWalk(id).current,
              ForkCtx(id).hmmr, ForkCtx(id))

ForkCall(id) ==
    rewind_and_apply_fork(Block[Block[id].prev_hash], store.header_head,
                          ForkExt(id), ForkCtx(id))

\* the fork point of header `h` on header MMR `hmmr`: its highest ancestor
\* (itself included) that the MMR holds, or genesis
OwnForkPoint(h, hmmr) ==
    CHOOSE a \in Ids \cup {GENESIS} :
      /\ IsAncestor(a, h)
      /\ Block[a].height = 0 \/ (Len(hmmr) > Block[a].height /\ hmmr[Block[a].height + 1] = a)
      /\ \A c \in Ids :
           (IsAncestor(c, h) /\ Len(hmmr) > Block[c].height
            /\ hmmr[Block[c].height + 1] = c) => Block[c].height <= Block[a].height

HeaderFaults ==
    {"version", "future", "edgebits", "pow", "height", "time", "difflow",
     "powdiff", "wrongdiff", "scaling"}

\* header `h` with the fields named in F set wrongly
Faulty(h, F) ==
    [ h EXCEPT
        !.version = IF "version" \in F THEN VALID_VERSION + 1 ELSE @,
        !.timestamp = IF "future" \in F THEN Now + 12 * BLOCK_TIME_SEC + 1
                      ELSE IF "time" \in F THEN Block[h.prev_hash].timestamp ELSE @,
        !.is_primary = IF "edgebits" \in F THEN FALSE ELSE @,
        !.pow_ok = IF "pow" \in F THEN FALSE ELSE @,
        !.height = IF "height" \in F THEN @ + 1 ELSE @,
        !.total_difficulty = IF "difflow" \in F THEN Block[h.prev_hash].total_difficulty
                             ELSE IF "wrongdiff" \in F THEN @ + 1 ELSE @,
        !.pow_difficulty = IF "powdiff" \in F THEN 0 ELSE @,
        !.secondary_scaling = IF "scaling" \in F THEN @ + 1 ELSE @ ]

\* the honest headers the faults are put on: a child of genesis and two
\* headers whose previous header may be in the store or not
FaultyBases == {1, 2, 3}

\* C24: for every header, whatever set of its fields is wrong and whether
\* or not its previous header is stored, validate_header returns the error
\* of the first check that fails in the order: version, future timestamp,
\* (unless SKIP_POW) edge bits and PoW verification, previous-header lookup,
\* height, timestamp against prev, (unless SKIP_POW) total difficulty, PoW
\* difficulty against the target, expected next difficulty, secondary
\* scaling; it returns Ok when none fails, and it leaves the store fields
\* and the MMRs of the context as they were.
C24_ValidateHeaderOrder ==
    \A id \in FaultyBases : \A F \in SUBSET HeaderFaults :
      \A h \in {Faulty(Block[id], F)} : \A v \in {validate_header(h, new_ctx)} :
        LET pow   == SKIP_POW \notin opts
            known == h.prev_hash \in store.headers
            prev  == Block[h.prev_hash]
            target == h.total_difficulty - prev.total_difficulty
            checks ==
              << <<h.version # VALID_VERSION, "InvalidBlockVersion">>,
                 <<h.timestamp > Now + 12 * BLOCK_TIME_SEC, "InvalidBlockTime">>,
                 <<pow /\ ~h.is_primary /\ ~h.is_secondary, "LowEdgebits">>,
                 <<pow /\ ~h.pow_ok, "InvalidPow">>,
                 <<~known, "Orphan">>,
                 <<h.height # prev.height + 1, "InvalidBlockHeight">>,
                 <<h.timestamp <= prev.timestamp, "InvalidBlockTime">>,
                 <<pow /\ h.total_difficulty <= prev.total_difficulty, "DifficultyTooLow">>,
                 <<pow /\ h.pow_difficulty < target, "DifficultyTooLow">>,
                 <<pow /\ target # expected_next(prev).difficulty, "WrongTotalDifficulty">>,
                 <<pow /\ h.secondary_scaling # expected_next(prev).secondary_scaling,
                   "InvalidScaling">> >>
            failing == {i \in DOMAIN checks : checks[i][1]}
        IN  /\ v.err = IF failing = {} THEN ""
                       ELSE checks[CHOOSE i \in failing : \A j \in failing : i <= j][2]
            /\ \A k \in DOMAIN store : v.ctx[k] = store[k]
            /\ \A k \in DOMAIN txhashset : v.ctx[k] = txhashset[k]

\* C24 witness: in one state a header with a bad proof of work has no
\* stored previous header and is refused for the proof of work, the same
\* header with a wrong version too is refused for the version, and a header
\* on a stored previous header with every later check failing at once is
\* refused for its height; with the height right, for its timestamp.
C24_Witness ==
    /\ SKIP_POW \notin opts
    /\ \E id \in FaultyBases :
         /\ Block[id].prev_hash \notin store.headers
         /\ validate_header(Faulty(Block[id], {"pow", "height"}), new_ctx).err = "InvalidPow"
         /\ validate_header(Faulty(Block[id], {"height"}), new_ctx).err = "Orphan"
         /\ validate_header(Faulty(Block[id], {"pow", "version"}), new_ctx).err
              = "InvalidBlockVersion"
    /\ \E id \in FaultyBases :
         /\ Block[id].prev_hash \in store.headers /\ Block[id].prev_hash # GENESIS
         /\ validate_header(Faulty(Block[id],
                {"height", "time", "difflow", "powdiff", "scaling"}), new_ctx).err
              = "InvalidBlockHeight"
         /\ validate_header(Faulty(Block[id],
                {"time", "difflow", "powdiff", "scaling"}), new_ctx).err
              = "InvalidBlockTime"
         /\ validate_header(Faulty(Block[id], {"wrongdiff", "scaling"}), new_ctx).err
              = "WrongTotalDifficulty"
         /\ validate_header(Faulty(Block[id], {"scaling"}), new_ctx).err = "InvalidScaling"
         /\ validate_header(Block[id], new_ctx).err = ""

\* ------------------------------------------------------------------------
\* C25: sync_block_headers on the empty slice, or on a slice whose last
\* header is in the store with a total_difficulty that does not exceed
\* sync_head's, returns Ok and leaves the store, the tips and the four MMRs
\* as they were, and validates nothing.
C25_KnownSliceIsNoOp ==
    \A s \in Slices :
      (\/ s = <<>>
       \/ /\ s[Len(s)] \in store.headers
          /\ Block[s[Len(s)]].total_difficulty <= store.sync_head.total_difficulty)
      => \A out \in {CallSync(s)} :
           /\ out.res.ok
           /\ out.ctx = new_ctx
           /\ store_after(store, out) = store
           /\ txhashset_after(out) = txhashset

\* C25 witness: a stored slice of two headers without more work than
\* sync_head, in a state whose header MMR is on another chain, so that
\* processing the slice would rewind it.
C25_Witness ==
    \E s \in Slices :
      /\ Len(s) = 2
      /\ s[2] \in store.headers
      /\ Block[s[2]].total_difficulty <= store.sync_head.total_difficulty
      /\ s[2] \notin Range(txhashset.hmmr)
      /\ CallSync(s).res.ok

\* ------------------------------------------------------------------------
\* C26: after every pipeline call, successful or failed, the last header of
\* the header MMR is header_head.last_block_h.
C26_HeaderMmrAtHeaderHead ==
    /\ txhashset.hmmr # <<>>
    /\ txhashset.hmmr[Len(txhashset.hmmr)] = store.header_head.last_block_h

\* ------------------------------------------------------------------------
\* C27.  What each entry point leaves alone.

\* the body of the chain state: stored blocks, block sums, and the output,
\* range-proof and kernel MMRs with the spent bitmap
BodyState(st, tx) ==
    [ blocks |-> st.blocks, block_sums |-> st.block_sums,
      ommr |-> tx.ommr, rmmr |-> tx.rmmr, kmmr |-> tx.kmmr, spent |-> tx.spent ]

\* C27: whatever header is submitted, process_block_header leaves head,
\* sync_head, body_tail and the body state as they were; whatever slice is
\* submitted, sync_block_headers leaves head, header_head, body_tail and
\* the body state as they were; whatever block is submitted, process_block
\* leaves sync_head as it was, leaves a body_tail that is set as it was, and
\* sets an unset body_tail exactly when it accepts the block, to that
\* block's tip.
C27_EntryPointsWriteOwnTips ==
    /\ \A id \in SpecIds : \A out \in {CallHeader(id)} :
         \A after \in {store_after(store, out)} :
           /\ after.head = store.head
           /\ after.sync_head = store.sync_head
           /\ after.body_tail = store.body_tail
           /\ BodyState(after, txhashset_after(out)) = BodyState(store, txhashset)
    /\ \A s \in Slices : \A out \in {CallSync(s)} :
         \A after \in {store_after(store, out)} :
           /\ after.head = store.head
           /\ after.header_head = store.header_head
           /\ after.body_tail = store.body_tail
           /\ BodyState(after, txhashset_after(out)) = BodyState(store, txhashset)
    /\ \A id \in SpecIds : \A out \in {CallBlock(id)} :
         \A after \in {store_after(store, out)} :
           /\ after.sync_head = store.sync_head
           /\ after.body_tail =
                IF store.body_tail = NoTip /\ out.res.ok
                THEN from_header(Block[id]) ELSE store.body_tail

\* C27 witness: body_tail is set and is not head; a block is accepted as
\* the new head, a header call moves header_head and a sync call moves
\* sync_head.
C27_Witness ==
    /\ store.body_tail # NoTip
    /\ store.body_tail # store.head
    /\ \E id \in SpecIds : \E out \in {CallBlock(id)} :
         out.res.ok /\ store_after(store, out).head = from_header(Block[id])
    /\ \E id \in SpecIds : \E out \in {CallHeader(id)} :
         out.res.ok /\ store_after(store, out).header_head # store.header_head
    /\ \E s \in Slices : \E out \in {CallSync(s)} :
         out.res.ok /\ store_after(store, out).sync_head # store.sync_head

\* ------------------------------------------------------------------------
\* C28.  The walk-back loops, one iteration at a time.  A call is started
\* (WalkCall), runs the loops it reaches (WalkBack, one evaluation of a
\* loop condition per step) and returns (WalkReturn), which is when its
\* writes land; calls run one at a time.

WalkIds == {1, 2, 4, 5}

WalkKinds == {"block", "header", "sync"}

\* process_block reaches process_block_header
BlockReachesHeader(id) ==
    /\ check_known(Block[id], new_ctx) = ""
    /\ Block[id].prev_hash \in store.headers
    /\ \/ Block[id].prev_hash = store.head.last_block_h
       \/ Block[id].prev_hash \in store.blocks

\* process_block_header reaches the loop of rewind_and_apply_header_fork
HeaderReachesWalk(id) ==
    /\ Block[id].prev_hash \in store.headers
    /\ check_known(Block[id], new_ctx) = ""
    /\ ~(id \in store.headers /\ ~has_more_work(Block[id], store.header_head))
    /\ Block[id].prev_hash # store.header_head.last_block_h

\* sync_block_headers of the slice <<id>> reaches that loop
SyncReachesWalk(id) ==
    /\ Block[id].prev_hash \in store.headers
    /\ ~(id \in store.headers /\ ~has_more_work(Block[id], store.sync_head))
    /\ Block[id].prev_hash # store.sync_head.last_block_h

WalkPhases == {"header_fork", "header_forked", "fork"}

\* the first loop the call reaches, if any
FirstPhase(kind, id) ==
    IF kind = "header" THEN (IF HeaderReachesWalk(id) THEN "header_fork" ELSE "done")
    ELSE IF kind = "sync" THEN (IF SyncReachesWalk(id) THEN "header_fork" ELSE "done")
    ELSE IF ~BlockReachesHeader(id) THEN "done"
    ELSE IF HeaderReachesWalk(id) THEN "header_fork"
    ELSE IF ForkReached(id) THEN "header_forked" ELSE "done"

\* the header a loop starts from
WalkStart(phase, id) ==
    IF phase = "header_forked" THEN store.header_head.last_block_h
    ELSE Block[id].prev_hash

\* the condition of the while loop the walk is in; header_ext is the
\* header (or sync) extension and ext the full extension of the call, each
\* with the headers of its batch
WalkOn(w) ==
    LET current == Block[w.current]
    IN  IF w.phase = "header_fork"
        THEN current.height > 0
             /\ ~is_on_current_chain(w.header_ext.hmmr, current, w.header_ext)
        ELSE IF w.phase = "header_forked"
        THEN current.height > 0 /\ ~is_on_current_chain(w.ext.hmmr, current, w.ext)
        ELSE current.height > 0
             /\ (~is_on_current_chain(w.ext.hmmr, current, w.ext)
                 \/ current.height > Block[w.hf].height)

\* A faulty variant of the loop body that stays on the current header.
walk_next_stuck(current, ctx) == [err |-> "", current |-> current.hash]

\* the loop body: current = ext.batch.get_previous_header(&current)?
walk_next(current, ctx) ==
    IF current.prev_hash \in ctx.headers
    THEN [err |-> "", current |-> current.prev_hash]
    ELSE [err |-> "StoreErr", current |-> current.hash]

\* what follows a loop that has ended
AfterLoop(w) ==
    IF w.phase = "header_fork"
    THEN IF w.kind = "block" /\ w.ext # <<>>
         THEN [w EXCEPT !.phase = "header_forked",
                        !.current = WalkStart("header_forked", w.id)]
         ELSE [w EXCEPT !.phase = "done"]
    ELSE IF w.phase = "header_forked"
    THEN [w EXCEPT !.phase = "fork", !.hf = w.current,
                   !.current = WalkStart("fork", w.id)]
    ELSE [w EXCEPT !.phase = "done"]

\* the call whose loops are walked
WalkOut(kind, id) ==
    IF kind = "block" THEN process_block(Block[id], new_ctx)
    ELSE IF kind = "header" THEN process_block_header(Block[id], new_ctx)
    ELSE sync_block_headers(<<Block[id]>>, new_ctx)

\* A call starts.  What it will have written when it returns is kept in
\* `pending`; the store and the txhashset do not change while it runs.
WalkCall ==
    \E kind \in WalkKinds : \E id \in WalkIds :
        /\ walk.phase = "idle"
        /\ walk' = [ kind |-> kind, id |-> id, phase |-> FirstPhase(kind, id),
                     current |-> WalkStart(FirstPhase(kind, id), id),
                     hf |-> GENESIS, err |-> "",
                     header_ext |-> [hmmr |-> txhashset.hmmr, headers |-> store.headers],
                     ext |-> IF kind = "block" /\ BlockReachesHeader(id)
                                /\ ForkReached(id)
                             THEN [ hmmr |-> ForkCtx(id).hmmr,
                                    headers |-> ForkCtx(id).headers ]
                             ELSE <<>> ]
        /\ \E out \in {WalkOut(kind, id)} :
             pending' = << [ store |-> store_after(store, out),
                             txhashset |-> txhashset_after(out) ] >>
        /\ UNCHANGED <<store, txhashset, accepted, opts, seen, reply>>

\* One evaluation of the loop condition, and the loop body if it holds.
WalkBack ==
    /\ walk.phase \in WalkPhases
    /\ walk' = IF WalkOn(walk)
               THEN Let(walk_next(Block[walk.current],
                                  IF walk.phase = "header_fork"
                                  THEN walk.header_ext ELSE walk.ext),
                        LAMBDA n :
                        IF n.err # "" THEN [walk EXCEPT !.phase = "done", !.err = n.err]
                        ELSE [walk EXCEPT !.current = n.current])
               ELSE AfterLoop(walk)
    /\ UNCHANGED <<store, txhashset, accepted, opts, pending, seen, reply>>

\* The call returns and its writes land.
WalkReturn ==
    /\ walk.phase = "done"
    /\ store' = pending[1].store
    /\ txhashset' = pending[1].txhashset
    /\ pending' = <<>>
    /\ walk' = NoWalk
    /\ UNCHANGED <<accepted, opts, seen, reply>>

NextWalk == WalkCall \/ WalkBack \/ WalkReturn

\* The caller's thread runs a call to completion: a loop that can take a
\* step takes it, and a call that is done returns.
SpecWalk ==
    Init /\ [][NextWalk]_vars /\ WF_vars(WalkBack) /\ WF_vars(WalkReturn)

\* every stored header's previous header has a strictly lower height
PrevIsLower ==
    \A h \in store.headers \ {GENESIS} :
        Block[Block[h].prev_hash].height < Block[h].height

\* C28: in every store the calls build, each stored header's previous
\* header is strictly lower; every iteration of a walk-back loop moves to
\* a header of strictly lower height; a loop that has ended without error
\* stands where the walk of rewind_and_apply_header_fork or of
\* rewind_and_apply_fork ends; and every call that has started returns.
C28_WalksTerminate ==
    /\ []PrevIsLower
    /\ [][(walk.phase \in WalkPhases /\ walk'.phase = walk.phase)
            => Block[walk'.current].height < Block[walk.current].height]_vars
    /\ [][(walk.phase \in WalkPhases /\ walk'.phase # walk.phase /\ walk'.err = "")
            => walk.current =
                 IF walk.phase = "header_fork"
                 THEN header_fork_walk(Block[WalkStart("header_fork", walk.id)], <<>>,
                                       txhashset.hmmr, new_ctx).current.hash
                 ELSE IF walk.phase = "header_forked"
                 THEN ForkFirstWalk(walk.id).current.hash
                 ELSE ForkSecondWalk(walk.id).current.hash]_vars
    /\ (walk.phase # "idle") ~> (walk.phase = "idle")

\* C28 witness: a walk is two headers below the header it started from.
C28_Witness ==
    /\ walk.phase \in WalkPhases
    /\ Block[walk.current].height + 2
         <= Block[WalkStart(walk.phase, walk.id)].height

====
